---------------------------- MODULE Spec2Model ----------------------------
(***************************************************************************)
(* Content reconciliation engine of the slide-deck generator:              *)
(*   scripts/advanced_placeholder_matcher.py  (matcher, content applier)   *)
(*   scripts/content_verification.py          (verifier, auto-repair)      *)
(*   scripts/extract_slide_details.py         (document -> actual content) *)
(*                                                                         *)
(* Strings are sequences of tokens.  A token is a word, a digit, a space,  *)
(* a newline or the "(missing)" marker; the string operations of the code  *)
(* (strip, split, replace, lower, in, isdigit, len) are computed on these  *)
(* sequences.  Confidences are integers in thousandths (1.0 is 1000).      *)
(***************************************************************************)
EXTENDS Integers, Sequences, FiniteSets, TLC

VARIABLES
    intent,     \* the intent JSON: a sequence of slide records
    doc,        \* the presentation file: a sequence of slides
    pc,         \* position of the run
    context,    \* SlideContext of the matching pass in progress
    todo,       \* content shapes the matching loop has not visited yet
    matches,    \* matches collected by the matching loop
    call,       \* the last _find_best_match call: argument, used set, result
    applied,    \* the last reconcile: the presentation before it, updated_count
    result,     \* VerificationResult of the first verification
    result2,    \* VerificationResult of the verification of the second cycle
    saves,      \* number of times the auto-repair saved the presentation file
    fix         \* the repair pass under way: the presentation loaded in memory,
                \* the repair results so far, whether an exception was raised

vars == <<intent, doc, pc, context, todo, matches, call, applied, result, result2, saves,
          fix>>

--------------------------------------------------------------------------
(* Python strings *)

Max(a, b) == IF a >= b THEN a ELSE b

Abs(x) == IF x < 0 THEN -x ELSE x

IsSpace(c) == c \in {" ", "\n"}

IsDigitTok(c) == c \in {"0", "1", "2", "3", "4", "5", "6", "7", "8", "9"}

DigitValue(c) ==
    CASE c = "0" -> 0 [] c = "1" -> 1 [] c = "2" -> 2 [] c = "3" -> 3
      [] c = "4" -> 4 [] c = "5" -> 5 [] c = "6" -> 6 [] c = "7" -> 7
      [] c = "8" -> 8 [] c = "9" -> 9 [] OTHER -> 0

\* str.lower() on one token
LowerTok(c) ==
    CASE c = "Alpha" -> "alpha" [] c = "Beta" -> "beta"
      [] c = "A" -> "a" [] c = "B" -> "b" [] c = "C" -> "c"
      [] c = "Old" -> "old"
      [] c = "Click" -> "click" [] c = "Add" -> "add" [] c = "Edit" -> "edit"
      [] c = "Title" -> "title" [] c = "TITLE" -> "title"
      [] c = "Subtitle" -> "subtitle"
      [] c = "Content" -> "content" [] c = "CONTENT" -> "content"
      [] c = "Placeholder" -> "placeholder" [] c = "PLACEHOLDER" -> "placeholder"
      [] c = "Text" -> "text" [] c = "Body" -> "body" [] c = "BODY" -> "body"
      [] c = "Footer" -> "footer" [] c = "Picture" -> "picture"
      [] c = "Table" -> "table" [] c = "Slide" -> "slide"
      [] c = "Number" -> "number" [] c = "Left" -> "left" [] c = "Right" -> "right"
      [] c = "OBJECT" -> "object" [] c = "SUBTITLE" -> "subtitle"
      [] c = "SLIDE_NUMBER" -> "slide_number"
      [] c = "Two" -> "two" [] c = "Comparison" -> "comparison"
      [] c = "Unknown" -> "unknown" [] c = "And" -> "and"
      [] OTHER -> c

\* len() of one token, in characters
CharLen(c) ==
    CASE LowerTok(c) \in {"alpha", "click", "title", "right"} -> 5
      [] LowerTok(c) \in {"beta", "edit", "text", "body", "left"} -> 4
      [] LowerTok(c) \in {"old", "add"} -> 3
      [] LowerTok(c) = "to" -> 2
      [] LowerTok(c) \in {"(missing)"} -> 9
      [] LowerTok(c) \in {"subtitle"} -> 8
      [] LowerTok(c) \in {"content", "picture"} -> 7
      [] LowerTok(c) \in {"footer", "number", "object"} -> 6
      [] LowerTok(c) \in {"table", "slide"} -> 5
      [] LowerTok(c) = "placeholder" -> 11
      [] LowerTok(c) = "slide_number" -> 12
      [] OTHER -> 1

\* the words that occur inside a lower-case token ("title" in "subtitle")
WordParts(c) ==
    CASE c = "subtitle" -> {"subtitle", "title"}
      [] c = "slide_number" -> {"slide_number", "slide", "number"}
      [] OTHER -> {c}

Lower(s) == [i \in 1..Len(s) |-> LowerTok(s[i])]

RECURSIVE StrLen(_)
StrLen(s) == IF s = <<>> THEN 0 ELSE CharLen(Head(s)) + StrLen(Tail(s))

RECURSIVE LStrip(_)
LStrip(s) == IF s # <<>> /\ IsSpace(Head(s)) THEN LStrip(Tail(s)) ELSE s

RECURSIVE RStrip(_)
RStrip(s) ==
    IF s # <<>> /\ IsSpace(s[Len(s)]) THEN RStrip(SubSeq(s, 1, Len(s) - 1)) ELSE s

\* str.strip()
Strip(s) == RStrip(LStrip(s))

\* s.startswith(p)
StartsWith(s, p) == Len(p) <= Len(s) /\ SubSeq(s, 1, Len(p)) = p

\* p in s, for a string p of whole tokens
RECURSIVE Contains(_, _)
Contains(s, p) ==
    IF StartsWith(s, p) THEN TRUE
    ELSE IF s = <<>> THEN FALSE
    ELSE Contains(Tail(s), p)

\* w in s, for a lower-case word w and a lower-case string s
InStr(w, s) == \E i \in 1..Len(s) : w \in WordParts(s[i])

\* s.replace(p, "")
RECURSIVE Remove(_, _)
Remove(s, p) ==
    IF s = <<>> THEN <<>>
    ELSE IF StartsWith(s, p) THEN Remove(SubSeq(s, Len(p) + 1, Len(s)), p)
    ELSE <<Head(s)>> \o Remove(Tail(s), p)

\* s.split('\n'): the pieces between newlines, empty ones included
RECURSIVE SplitLines(_)
SplitLines(s) ==
    IF \A i \in 1..Len(s) : s[i] # "\n" THEN <<s>>
    ELSE LET k == CHOOSE i \in 1..Len(s) :
                      s[i] = "\n" /\ \A j \in 1..(i - 1) : s[j] # "\n"
         IN  <<SubSeq(s, 1, k - 1)>> \o SplitLines(SubSeq(s, k + 1, Len(s)))

\* s.split(): the maximal runs of non-space tokens
RECURSIVE SplitWords(_)
SplitWords(s) ==
    LET t == LStrip(s) IN
    IF t = <<>> THEN <<>>
    ELSE IF \A i \in 1..Len(t) : ~IsSpace(t[i]) THEN <<t>>
    ELSE LET k == CHOOSE i \in 1..Len(t) :
                      IsSpace(t[i]) /\ \A j \in 1..(i - 1) : ~IsSpace(t[j])
         IN  <<SubSeq(t, 1, k - 1)>> \o SplitWords(SubSeq(t, k + 1, Len(t)))

\* set(s.split())
WordSet(s) == {SplitWords(s)[i] : i \in 1..Len(SplitWords(s))}

\* sep.join(parts)
RECURSIVE Join(_, _)
Join(parts, sep) ==
    IF parts = <<>> THEN <<>>
    ELSE IF Len(parts) = 1 THEN parts[1]
    ELSE parts[1] \o sep \o Join(Tail(parts), sep)

\* str.isdigit()
IsDigit(s) == s # <<>> /\ \A i \in 1..Len(s) : IsDigitTok(s[i])

\* int(s) of a string of digits
RECURSIVE IntOf(_)
IntOf(s) == IF s = <<>> THEN 0 ELSE IntOf(SubSeq(s, 1, Len(s) - 1)) * 10 + DigitValue(s[Len(s)])

--------------------------------------------------------------------------
(* The document (python-pptx) *)

\* shape.text, text_frame.text: the paragraphs joined by newlines
ShapeText(shape) == Join(shape.paras, <<"\n">>)

\* text_frame.clear(): one empty paragraph is left
TextFrameClear(shape) == [shape EXCEPT !.paras = <<<<>>>>]

\* text_frame.paragraphs[0].text = line
SetFirstParagraph(shape, line) ==
    [shape EXCEPT !.paras = <<line>> \o Tail(shape.paras)]

\* p = text_frame.add_paragraph(); p.text = line
AddParagraph(shape, line) == [shape EXCEPT !.paras = Append(shape.paras, line)]

--------------------------------------------------------------------------
(* AdvancedPlaceholderMatcher *)

position_tolerance == 500000

NoMatch == [ppt_shape |-> 0, confidence |-> 0, strategy |-> "none"]

Match(i, c, s) == [ppt_shape |-> i, confidence |-> c, strategy |-> s]

\* the first element of a sequence of shape indexes, or no match
FirstOf(seq, c, s) == IF seq = <<>> THEN NoMatch ELSE Match(seq[1], c, s)

NameLower(shape) == Lower(shape.name)

IsContentMarked(shape) ==
    InStr("content", NameLower(shape)) /\ InStr("placeholder", NameLower(shape))

IsTitleMarked(shape) == InStr("title", NameLower(shape))

IsSubtitleMarked(shape) == InStr("subtitle", NameLower(shape))

_is_content_shape(shape) ==
    /\ shape.has_text_frame
    /\ ~InStr("picture", NameLower(shape))
    /\ ~InStr("table", NameLower(shape))
    /\ ~(InStr("slide", NameLower(shape)) /\ InStr("number", NameLower(shape)))
    /\ ~(IsDigit(Strip(ShapeText(shape))) /\ StrLen(Strip(ShapeText(shape))) <= 2)

\* the context with every shape that has a text frame, eligible or not
context_of_all_text_shapes(slide, slide_data) ==
    [slide_index |-> slide_data.slide_index,
     layout_name |-> slide_data.slide_layout_name,
     available   |-> SelectSeq([i \in 1..Len(slide.shapes) |-> i],
                               LAMBDA i : slide.shapes[i].has_text_frame),
     used        |-> {}]

_create_slide_context(slide, slide_data) ==
    [slide_index |-> slide_data.slide_index,
     layout_name |-> slide_data.slide_layout_name,
     available   |-> SelectSeq([i \in 1..Len(slide.shapes) |-> i],
                               LAMBDA i : slide.shapes[i].has_text_frame
                                          /\ _is_content_shape(slide.shapes[i])),
     used        |-> {}]

priority(shape_data) ==
    IF shape_data.placeholder_type = "TITLE" THEN 0
    ELSE IF shape_data.placeholder_type = "OBJECT" THEN 1
    ELSE 2

\* the content shapes in the order of the intent, without the sort by priority
filter_without_priority_sort(slide_data) ==
    SelectSeq(slide_data.shapes, LAMBDA sd : sd.placeholder_type # "SLIDE_NUMBER")

\* sorted(content_shapes, key=priority): a stable sort on three keys
_filter_content_shapes(slide_data) ==
    LET content == SelectSeq(slide_data.shapes,
                             LAMBDA sd : sd.placeholder_type # "SLIDE_NUMBER")
    IN  SelectSeq(content, LAMBDA sd : priority(sd) = 0)
        \o SelectSeq(content, LAMBDA sd : priority(sd) = 1)
        \o SelectSeq(content, LAMBDA sd : priority(sd) = 2)

\* the available shapes not yet used, in slide order
Unused(ctx) == SelectSeq(ctx.available, LAMBDA i : i \notin ctx.used)

\* the comparison of the names without lower()
exact_name_case_sensitive(shape_data, ctx, slide) ==
    IF shape_data.name = <<>> THEN NoMatch
    ELSE FirstOf(SelectSeq(Unused(ctx),
                     LAMBDA i : /\ slide.shapes[i].name # <<>>
                                /\ slide.shapes[i].name = shape_data.name),
                 1000, "exact_name")

_try_exact_name_match(shape_data, ctx, slide) ==
    IF shape_data.name = <<>> THEN NoMatch
    ELSE FirstOf(SelectSeq(Unused(ctx),
                     LAMBDA i : /\ slide.shapes[i].name # <<>>
                                /\ Lower(slide.shapes[i].name) = Lower(shape_data.name)),
                 1000, "exact_name")

\* re.search(r'placeholder\s+(\d+)', s): the number after the first
\* "placeholder" that is followed by spaces and digits, or -1
RECURSIVE Digits(_)
Digits(s) == IF s # <<>> /\ IsDigitTok(Head(s)) THEN <<Head(s)>> \o Digits(Tail(s)) ELSE <<>>

RECURSIVE PlaceholderNumber(_)
PlaceholderNumber(s) ==
    IF s = <<>> THEN -1
    ELSE LET rest == Tail(s) IN
         IF /\ Head(s) = "placeholder"
            /\ rest # <<>> /\ IsSpace(Head(rest))
            /\ Digits(LStrip(rest)) # <<>>
         THEN IntOf(Digits(LStrip(rest)))
         ELSE PlaceholderNumber(rest)

_try_placeholder_number_match(shape_data, ctx, slide) ==
    IF \/ shape_data.placeholder_type # "OBJECT"
       \/ ~InStr("placeholder", Lower(shape_data.name))
    THEN NoMatch
    ELSE LET target_number == PlaceholderNumber(Lower(shape_data.name)) IN
         IF target_number = -1 THEN NoMatch
         ELSE FirstOf(SelectSeq(Unused(ctx),
                          LAMBDA i : PlaceholderNumber(NameLower(slide.shapes[i]))
                                         = target_number),
                      950, "placeholder_number")

Distance(shape_data, shape) ==
    Abs(shape.left - shape_data.left_inches) + Abs(shape.top - shape_data.top_inches)

\* the role guard of the position strategy
PositionGuard(shape_data, shape) ==
    IF shape_data.placeholder_type = "OBJECT" THEN IsContentMarked(shape)
    ELSE IF shape_data.placeholder_type = "TITLE" THEN IsTitleMarked(shape)
    ELSE TRUE

\* the confidence with a floor division: 1.0 - distance // position_tolerance
PositionConfidence_floor_division(distance) ==
    Max(100, 1000 * (1 - distance \div position_tolerance))

\* max(0.1, 1.0 - distance / position_tolerance), in thousandths
PositionConfidence(distance) ==
    Max(100, 1000 - (distance * 1000) \div position_tolerance)

\* the position strategy with a candidate at the tolerance accepted
position_match_up_to_tolerance(shape_data, ctx, slide) ==
    LET ok == SelectSeq(Unused(ctx),
                  LAMBDA i : /\ Distance(shape_data, slide.shapes[i]) <= position_tolerance
                             /\ PositionGuard(shape_data, slide.shapes[i]))
        best == SelectSeq(ok,
                  LAMBDA i : \A k \in 1..Len(ok) :
                      Distance(shape_data, slide.shapes[i])
                          <= Distance(shape_data, slide.shapes[ok[k]]))
    IN  IF best = <<>> THEN NoMatch
        ELSE Match(best[1],
                   PositionConfidence(Distance(shape_data, slide.shapes[best[1]])),
                   "position_based")

_try_position_match(shape_data, ctx, slide) ==
    LET ok == SelectSeq(Unused(ctx),
                  LAMBDA i : /\ Distance(shape_data, slide.shapes[i]) < position_tolerance
                             /\ PositionGuard(shape_data, slide.shapes[i]))
        \* the first shape at the least distance
        best == SelectSeq(ok,
                  LAMBDA i : \A k \in 1..Len(ok) :
                      Distance(shape_data, slide.shapes[i])
                          <= Distance(shape_data, slide.shapes[ok[k]]))
    IN  IF best = <<>> THEN NoMatch
        ELSE Match(best[1],
                   PositionConfidence(Distance(shape_data, slide.shapes[best[1]])),
                   "position_based")

\* content_shapes.sort(key=lambda s: (s.top, s.left)): a stable insertion sort
KeyLess(a, b) == a.top < b.top \/ (a.top = b.top /\ a.left < b.left)

RECURSIVE InsertByKey(_, _, _)
InsertByKey(sorted, i, slide) ==
    IF sorted = <<>> THEN <<i>>
    ELSE IF KeyLess(slide.shapes[i], slide.shapes[Head(sorted)]) THEN <<i>> \o sorted
    ELSE <<Head(sorted)>> \o InsertByKey(Tail(sorted), i, slide)

RECURSIVE SortByTopLeft(_, _)
SortByTopLeft(seq, slide) ==
    IF seq = <<>> THEN <<>>
    ELSE InsertByKey(SortByTopLeft(SubSeq(seq, 1, Len(seq) - 1), slide),
                     seq[Len(seq)], slide)

IsTwoContentLayout(layout_name) ==
    \/ Contains(Lower(layout_name), <<"two", " ", "content">>)
    \/ InStr("comparison", Lower(layout_name))

_try_layout_pattern_match(shape_data, ctx, slide) ==
    IF shape_data.placeholder_type = "TITLE" THEN
        FirstOf(SelectSeq(Unused(ctx), LAMBDA i : IsTitleMarked(slide.shapes[i])),
                800, "layout_pattern")
    ELSE IF shape_data.placeholder_type = "SUBTITLE" THEN
        FirstOf(SelectSeq(Unused(ctx), LAMBDA i : IsSubtitleMarked(slide.shapes[i])),
                800, "layout_pattern")
    ELSE IF shape_data.placeholder_type = "OBJECT" THEN
        LET content_shapes ==
                SortByTopLeft(SelectSeq(Unused(ctx),
                                  LAMBDA i : IsContentMarked(slide.shapes[i])), slide)
            shape_name == Lower(shape_data.name)
        IN  IF content_shapes = <<>> THEN NoMatch
            ELSE IF /\ IsTwoContentLayout(ctx.layout_name)
                    /\ (InStr("1", shape_name) \/ InStr("left", shape_name))
                 THEN Match(content_shapes[1], 850, "layout_pattern")
            ELSE IF /\ IsTwoContentLayout(ctx.layout_name)
                    /\ (InStr("2", shape_name) \/ InStr("right", shape_name))
                    /\ Len(content_shapes) > 1
                 THEN Match(content_shapes[Len(content_shapes)], 850, "layout_pattern")
            ELSE Match(content_shapes[1], 700, "layout_pattern")
    ELSE NoMatch

\* _calculate_text_similarity as the pair <<|intersection|, |union|>>
_calculate_text_similarity(text1, text2) ==
    LET words1 == WordSet(Lower(text1))
        words2 == WordSet(Lower(text2))
    IN  IF text1 = <<>> \/ text2 = <<>> \/ words1 = {} \/ words2 = {} THEN <<0, 1>>
        ELSE <<Cardinality(words1 \cap words2), Cardinality(words1 \cup words2)>>

\* a > b for two similarities
SimGreater(a, b) == a[1] * b[2] > b[1] * a[2]

_try_content_similarity_match(shape_data, ctx, slide) ==
    IF shape_data.text = <<>> THEN NoMatch
    ELSE LET Sim(i) == _calculate_text_similarity(shape_data.text,
                                                   Strip(ShapeText(slide.shapes[i])))
             ok == SelectSeq(Unused(ctx),
                       LAMBDA i : /\ Strip(ShapeText(slide.shapes[i])) # <<>>
                                  /\ SimGreater(Sim(i), <<3, 10>>))
             \* the first shape of the greatest similarity
             best == SelectSeq(ok, LAMBDA i : \A k \in 1..Len(ok) :
                                                ~SimGreater(Sim(ok[k]), Sim(i)))
         IN  IF best = <<>> THEN NoMatch
             ELSE Match(best[1], (Sim(best[1])[1] * 600) \div Sim(best[1])[2],
                        "content_similarity")

_try_fallback_order_match(shape_data, ctx, slide) ==
    IF shape_data.placeholder_type = "OBJECT" THEN
        FirstOf(SelectSeq(Unused(ctx), LAMBDA i : IsContentMarked(slide.shapes[i])),
                500, "fallback_order")
    ELSE IF shape_data.placeholder_type = "TITLE" THEN
        FirstOf(SelectSeq(Unused(ctx), LAMBDA i : IsTitleMarked(slide.shapes[i])),
                600, "fallback_order")
    ELSE IF shape_data.placeholder_type = "SUBTITLE" THEN
        FirstOf(SelectSeq(Unused(ctx), LAMBDA i : IsSubtitleMarked(slide.shapes[i])),
                600, "fallback_order")
    ELSE
        LET named == SelectSeq(Unused(ctx),
                         LAMBDA i : \/ shape_data.placeholder_type = ""
                                    \/ InStr(LowerTok(shape_data.placeholder_type),
                                             NameLower(slide.shapes[i])))
        IN  IF named # <<>> THEN Match(named[1], 400, "fallback_order")
            ELSE FirstOf(Unused(ctx), 300, "fallback_order")

Strategy(k, shape_data, ctx, slide) ==
    CASE k = 1 -> _try_exact_name_match(shape_data, ctx, slide)
      [] k = 2 -> _try_placeholder_number_match(shape_data, ctx, slide)
      [] k = 3 -> _try_position_match(shape_data, ctx, slide)
      [] k = 4 -> _try_layout_pattern_match(shape_data, ctx, slide)
      [] k = 5 -> _try_content_similarity_match(shape_data, ctx, slide)
      [] k = 6 -> _try_fallback_order_match(shape_data, ctx, slide)

\* the early exit: a match of confidence >= 0.9 is used at once
EarlyExit(confidence) == confidence >= 900

\* the strategies list of _find_best_match, by position
NumStrategies == 6

\* the loop of _find_best_match from strategy k on, best being the best so far
RECURSIVE BestFrom(_, _, _, _, _)

\* one round without the comparison of confidences: the last match wins
BestStep_last_wins(k, best, match, shape_data, ctx, slide) ==
    IF match # NoMatch
    THEN IF EarlyExit(match.confidence) THEN match
         ELSE BestFrom(k + 1, match, shape_data, ctx, slide)
    ELSE BestFrom(k + 1, best, shape_data, ctx, slide)

\* one round of the loop: match is what strategy k returned
BestStep(k, best, match, shape_data, ctx, slide) ==
    IF match # NoMatch /\ match.confidence > best.confidence
    THEN IF EarlyExit(match.confidence) THEN match
         ELSE BestFrom(k + 1, match, shape_data, ctx, slide)
    ELSE BestFrom(k + 1, best, shape_data, ctx, slide)

BestFrom(k, best, shape_data, ctx, slide) ==
    IF k > NumStrategies THEN best
    ELSE BestStep(k, best, Strategy(k, shape_data, ctx, slide), shape_data, ctx, slide)

_find_best_match(shape_data, ctx, slide) == BestFrom(1, NoMatch, shape_data, ctx, slide)

\* the matched shape is not added to used_shapes
Consume_forgets(ctx, best_match) == ctx

\* one round of the loop of match_placeholders_for_slide
Consume(ctx, best_match) ==
    IF best_match = NoMatch THEN ctx
    ELSE [ctx EXCEPT !.used = @ \cup {best_match.ppt_shape}]

PlaceholderMatch(shape_data, best_match) ==
    [json_shape |-> shape_data, ppt_shape |-> best_match.ppt_shape,
     confidence |-> best_match.confidence, strategy |-> best_match.strategy]

\* sorted(matches, key=lambda m: m.confidence, reverse=True): stable
RECURSIVE InsertByConfidence(_, _)
InsertByConfidence(sorted, m) ==
    IF sorted = <<>> THEN <<m>>
    ELSE IF m.confidence > Head(sorted).confidence THEN <<m>> \o sorted
    ELSE <<Head(sorted)>> \o InsertByConfidence(Tail(sorted), m)

RECURSIVE SortByConfidence(_)
SortByConfidence(ms) ==
    IF ms = <<>> THEN <<>>
    ELSE InsertByConfidence(SortByConfidence(SubSeq(ms, 1, Len(ms) - 1)), ms[Len(ms)])

RECURSIVE MatchLoop(_, _, _, _)
\* one round of the loop: best_match is what _find_best_match returned
MatchRound(content_shapes, ctx, slide, found, best_match) ==
    MatchLoop(Tail(content_shapes), Consume(ctx, best_match), slide,
              IF best_match = NoMatch THEN found
              ELSE Append(found, PlaceholderMatch(Head(content_shapes), best_match)))

MatchLoop(content_shapes, ctx, slide, found) ==
    IF content_shapes = <<>> THEN found
    ELSE MatchRound(content_shapes, ctx, slide, found,
                    _find_best_match(Head(content_shapes), ctx, slide))

\* the matches as the loop collected them, without the sort by confidence
match_placeholders_unsorted(slide, slide_data) ==
    MatchLoop(_filter_content_shapes(slide_data),
              _create_slide_context(slide, slide_data), slide, <<>>)

match_placeholders_for_slide(slide, slide_data) ==
    SortByConfidence(MatchLoop(_filter_content_shapes(slide_data),
                               _create_slide_context(slide, slide_data), slide, <<>>))

--------------------------------------------------------------------------
(* apply_advanced_content_matching *)

\* new_text.replace(" (missing)", "").replace("(missing)", "").strip()
CleanMissing(new_text) ==
    Strip(Remove(Remove(new_text, <<" ", "(missing)">>), <<"(missing)">>))

\* the text that is written for an intent text, <<>> when the match is skipped;
\* the text is cleaned only when it is empty or holds the marker
TextToWrite(new_text) ==
    IF new_text = <<>> \/ Contains(new_text, <<"(missing)">>)
    THEN IF new_text # <<>> THEN CleanMissing(new_text) ELSE new_text
    ELSE new_text

\* the loop over the lines of the text, i being the index of enumerate
RECURSIVE WriteLinesFrom(_, _, _)
WriteLinesFrom(shape, lines, i) ==
    IF lines = <<>> THEN shape
    ELSE LET line == Strip(Head(lines)) IN
         IF line = <<>> THEN WriteLinesFrom(shape, Tail(lines), i + 1)
         ELSE IF i = 0
              THEN WriteLinesFrom(SetFirstParagraph(shape, line), Tail(lines), i + 1)
              ELSE WriteLinesFrom(AddParagraph(shape, line), Tail(lines), i + 1)

\* the write without the split: the whole text goes to the first paragraph
WriteText_unsplit(shape, new_text) ==
    SetFirstParagraph(TextFrameClear(shape), new_text)

\* text_frame.clear() and the multi-line write
WriteText(shape, new_text) ==
    WriteLinesFrom(TextFrameClear(shape), SplitLines(new_text), 0)

\* the loop over the matches: the slide and updated_count
RECURSIVE ApplyMatches(_, _, _)
ApplyMatches(slide, ms, updated_count) ==
    IF ms = <<>> THEN [slide |-> slide, updated_count |-> updated_count]
    ELSE LET new_text == TextToWrite(Head(ms).json_shape.text) IN
         IF new_text = <<>> THEN ApplyMatches(slide, Tail(ms), updated_count)
         ELSE ApplyMatches(
                [slide EXCEPT !.shapes[Head(ms).ppt_shape] = WriteText(@, new_text)],
                Tail(ms), updated_count + 1)

apply_advanced_content_matching(slide, slide_data) ==
    ApplyMatches(slide, match_placeholders_for_slide(slide, slide_data), 0)

--------------------------------------------------------------------------
(* extract_slide_details: the actual content of the presentation file *)

\* shape_info of one shape; left_inches is Inches(shape.left).inches, which is
\* shape.left itself; text stays None (here <<>>) without a text frame
ShapeInfo(shape) ==
    [name |-> shape.name, placeholder_type |-> shape.placeholder_type,
     left_inches |-> shape.left, top_inches |-> shape.top,
     has_text_frame |-> shape.has_text_frame,
     text |-> IF shape.has_text_frame THEN ShapeText(shape) ELSE <<>>]

\* "text": None
TextIsNone(shape_info) == ~shape_info.has_text_frame

extract_slide_details(prs) ==
    [i \in 1..Len(prs) |->
        [slide_index |-> i - 1,
         shapes |-> [j \in 1..Len(prs[i].shapes) |-> ShapeInfo(prs[i].shapes[j])]]]

--------------------------------------------------------------------------
(* ContentVerifier *)

default_text_patterns ==
    { <<"click", " ", "to", " ", "edit">>,
      <<"click", " ", "to", " ", "add">>,
      <<"add", " ", "your", " ", "text", " ", "here">>,
      <<"type", " ", "your", " ", "text", " ", "here">>,
      <<"enter", " ", "your", " ", "content", " ", "here">>,
      <<"placeholder", " ", "text">>,
      <<"sample", " ", "text">>,
      <<"lorem", " ", "ipsum">>,
      <<"content", " ", "placeholder">>,
      <<"add", " ", "content">>,
      <<"your", " ", "content", " ", "here">>,
      <<"edit", " ", "this", " ", "text">>,
      <<"replace", " ", "this", " ", "text">>,
      <<"template", " ", "text">> }

\* ContentMismatch; the description, a text derived from the other fields, is
\* left out
ContentMismatch(slide_index, shape_name, placeholder_type, issue_type, intended_content, actual_content, severity) ==
    [slide_index |-> slide_index, shape_name |-> shape_name,
     placeholder_type |-> placeholder_type, issue_type |-> issue_type,
     intended_content |-> intended_content, actual_content |-> actual_content,
     severity |-> severity]

\* return None of _analyze_content_match
NoMismatch == ContentMismatch(0, <<>>, "", "none", <<>>, <<>>, "none")

\* ContentVerifier._is_content_shape, on an intent shape
ContentVerifier_is_content_shape(shape) ==
    shape.placeholder_type # "SLIDE_NUMBER" /\ shape.has_text_frame

_is_default_text(text) ==
    \/ \E pattern \in default_text_patterns : Contains(Strip(Lower(text)), pattern)
    \/ /\ StrLen(Strip(Lower(text))) < 10
       /\ \E word \in {"click", "add", "edit", "text", "content"} :
             InStr(word, Strip(Lower(text)))

\* the similarity over the lists of words: a word counts as often as it occurs
similarity_of_word_lists(text1, text2) ==
    IF text1 = <<>> \/ text2 = <<>> \/ WordSet(text1) = {} \/ WordSet(text2) = {}
    THEN <<0, 1>>
    ELSE <<Cardinality(WordSet(text1) \cap WordSet(text2)),
           Len(SplitWords(text1)) + Len(SplitWords(text2))
               - Cardinality(WordSet(text1) \cap WordSet(text2))>>

\* _calculate_similarity as the pair <<|intersection|, |union|>>
_calculate_similarity(text1, text2) ==
    IF text1 = <<>> \/ text2 = <<>> \/ WordSet(text1) = {} \/ WordSet(text2) = {}
    THEN <<0, 1>>
    ELSE <<Cardinality(WordSet(text1) \cap WordSet(text2)),
           Cardinality(WordSet(text1) \cup WordSet(text2))>>

\* " ".join(text.split()).lower()
Normalized(text) == Lower(Join(SplitWords(text), <<" ">>))

\* the branches with the test of equality ahead of the test for default text
AnalyzeNormalized_equality_first(slide_index, shape_name, placeholder_type, intended_text, actual_text, intended_normalized, actual_normalized) ==
    IF actual_text = <<>>
    THEN ContentMismatch(slide_index, shape_name, placeholder_type, "empty_placeholder",
                         intended_text, actual_text, "critical")
    ELSE IF intended_normalized = actual_normalized THEN NoMismatch
    ELSE IF _is_default_text(actual_text)
    THEN ContentMismatch(slide_index, shape_name, placeholder_type, "default_text",
                         intended_text, actual_text, "critical")
    ELSE IF \/ Contains(actual_normalized, intended_normalized)
            \/ Contains(intended_normalized, actual_normalized)
    THEN IF SimGreater(_calculate_similarity(intended_normalized, actual_normalized),
                       <<8, 10>>)
         THEN NoMismatch
         ELSE ContentMismatch(slide_index, shape_name, placeholder_type,
                              "content_mismatch", intended_text, actual_text, "warning")
    ELSE ContentMismatch(slide_index, shape_name, placeholder_type, "content_mismatch",
                         intended_text, actual_text, "critical")

\* the branches of _analyze_content_match after the normalisation
AnalyzeNormalized(slide_index, shape_name, placeholder_type, intended_text, actual_text, intended_normalized, actual_normalized) ==
    IF actual_text = <<>>
    THEN ContentMismatch(slide_index, shape_name, placeholder_type, "empty_placeholder",
                         intended_text, actual_text, "critical")
    ELSE IF _is_default_text(actual_text)
    THEN ContentMismatch(slide_index, shape_name, placeholder_type, "default_text",
                         intended_text, actual_text, "critical")
    ELSE IF intended_normalized = actual_normalized THEN NoMismatch
    ELSE IF \/ Contains(actual_normalized, intended_normalized)
            \/ Contains(intended_normalized, actual_normalized)
    THEN IF SimGreater(_calculate_similarity(intended_normalized, actual_normalized),
                       <<8, 10>>)
         THEN NoMismatch
         ELSE ContentMismatch(slide_index, shape_name, placeholder_type,
                              "content_mismatch", intended_text, actual_text, "warning")
    ELSE ContentMismatch(slide_index, shape_name, placeholder_type, "content_mismatch",
                         intended_text, actual_text, "critical")

_analyze_content_match(slide_index, shape_name, placeholder_type, intended_text, actual_text) ==
    AnalyzeNormalized(slide_index, shape_name, placeholder_type, intended_text,
                      actual_text, Normalized(intended_text), Normalized(actual_text))

\* the values of the dict {shape.get("name", ""): shape}: one shape per name, in
\* the order the names first occur, the last shape of a name being kept
ActualShapes(actual_slide) ==
    LET shapes == actual_slide.shapes
        firsts == SelectSeq([j \in 1..Len(shapes) |-> j],
                      LAMBDA j : \A k \in 1..(j - 1) : shapes[k].name # shapes[j].name)
        Last(j) == CHOOSE k \in j..Len(shapes) :
                      /\ shapes[k].name = shapes[j].name
                      /\ \A l \in (k + 1)..Len(shapes) : shapes[l].name # shapes[j].name
    IN  [n \in 1..Len(firsts) |-> shapes[Last(firsts[n])]]

\* the match score of an actual shape, lower is better
Score(placeholder_type, intended_shape, actual_shape) ==
    (IF actual_shape.placeholder_type = placeholder_type THEN -100 ELSE 0)
    + Abs(intended_shape.left_inches - actual_shape.left_inches) * 10
    + Abs(intended_shape.top_inches - actual_shape.top_inches) * 10

\* best_score < 50
ScoreAccepted(score) == score < 50

\* the index in actual_shapes of the shape that is returned, 0 for None
_find_matching_actual_shape(shape_name, placeholder_type, actual_shapes, intended_shape) ==
    IF \E j \in 1..Len(actual_shapes) : actual_shapes[j].name = shape_name
    THEN CHOOSE j \in 1..Len(actual_shapes) : actual_shapes[j].name = shape_name
    ELSE IF actual_shapes = <<>> THEN 0
    ELSE LET S(j) == Score(placeholder_type, intended_shape, actual_shapes[j])
             best == CHOOSE j \in 1..Len(actual_shapes) :
                        /\ \A k \in 1..Len(actual_shapes) : S(j) <= S(k)
                        /\ \A k \in 1..(j - 1) : S(k) > S(j)
         IN  IF ScoreAccepted(S(best)) THEN best ELSE 0

\* the values of a dict built from a sequence by a key: one element per key, in
\* the order the keys first occur, the last element of a key being kept
SlidesByIndex(content) ==
    LET firsts == SelectSeq([j \in 1..Len(content) |-> j],
                      LAMBDA j : \A k \in 1..(j - 1) :
                                    content[k].slide_index # content[j].slide_index)
        Last(j) == CHOOSE k \in j..Len(content) :
                      /\ content[k].slide_index = content[j].slide_index
                      /\ \A l \in (k + 1)..Len(content) :
                            content[l].slide_index # content[j].slide_index
    IN  [n \in 1..Len(firsts) |-> content[Last(firsts[n])]]

\* what a comparison gives: the mismatches, or raised when an exception left it
Compared(mismatches) == [raised |-> FALSE, mismatches |-> mismatches]

Raised == [raised |-> TRUE, mismatches |-> <<>>]

RECURSIVE CompareShapesFrom(_, _, _, _)
\* the rest of a round of the loop, mismatch being what the analysis returned
CompareAnalyzed(slide_index, actual_shapes, shapes, mismatches, mismatch) ==
    CompareShapesFrom(slide_index, actual_shapes, Tail(shapes),
                      IF mismatch = NoMismatch THEN mismatches
                      ELSE Append(mismatches, mismatch))

\* the rest of a round of the loop, j being the actual shape that was found;
\* actual_shape.get("text", "").strip() raises when the text is None
CompareFound(slide_index, actual_shapes, shapes, mismatches, j) ==
    IF j = 0
    THEN CompareShapesFrom(slide_index, actual_shapes, Tail(shapes),
             Append(mismatches,
                    ContentMismatch(slide_index, Head(shapes).name,
                                    Head(shapes).placeholder_type, "missing_shape",
                                    Strip(Head(shapes).text), <<>>, "critical")))
    ELSE IF TextIsNone(actual_shapes[j]) THEN Raised
    ELSE CompareAnalyzed(slide_index, actual_shapes, shapes, mismatches,
             _analyze_content_match(slide_index, Head(shapes).name,
                                    Head(shapes).placeholder_type,
                                    Strip(Head(shapes).text),
                                    Strip(actual_shapes[j].text)))

\* the loop of _compare_slide_shapes over the intended shapes
CompareShapesFrom(slide_index, actual_shapes, shapes, mismatches) ==
    IF shapes = <<>> THEN Compared(mismatches)
    ELSE IF ~ContentVerifier_is_content_shape(Head(shapes))
    THEN CompareShapesFrom(slide_index, actual_shapes, Tail(shapes), mismatches)
    ELSE IF Strip(Head(shapes).text) \in {<<>>, <<"(missing)">>}
    THEN CompareShapesFrom(slide_index, actual_shapes, Tail(shapes), mismatches)
    ELSE CompareFound(slide_index, actual_shapes, shapes, mismatches,
             _find_matching_actual_shape(Head(shapes).name,
                                         Head(shapes).placeholder_type,
                                         actual_shapes, Head(shapes)))

_compare_slide_shapes(slide_index, actual_slide, intended_slide) ==
    CompareShapesFrom(slide_index, ActualShapes(actual_slide), intended_slide.shapes, <<>>)

\* the mismatches of a slide that the presentation does not have
MissingSlide(intended_slide) ==
    LET content == SelectSeq(intended_slide.shapes, ContentVerifier_is_content_shape)
    IN  [n \in 1..Len(content) |->
            ContentMismatch(intended_slide.slide_index, content[n].name,
                            content[n].placeholder_type, "missing_slide",
                            content[n].text, <<>>, "critical")]

\* actual_slides.get(slide_index): the position in actual_content, 0 for None
ActualSlide(actual_content, slide_index) ==
    IF \E i \in 1..Len(actual_content) : actual_content[i].slide_index = slide_index
    THEN CHOOSE i \in 1..Len(actual_content) :
            /\ actual_content[i].slide_index = slide_index
            /\ \A k \in (i + 1)..Len(actual_content) :
                  actual_content[k].slide_index # slide_index
    ELSE 0

RECURSIVE CompareContentFrom(_, _, _)
\* the rest of a round of the loop, compared being what the slide gave
CompareSlideDone(actual_content, slides, mismatches, compared) ==
    IF compared.raised THEN Raised
    ELSE CompareContentFrom(actual_content, Tail(slides),
                            mismatches \o compared.mismatches)

\* the loop of _compare_content over the intended slides
CompareContentFrom(actual_content, slides, mismatches) ==
    IF slides = <<>> THEN Compared(mismatches)
    ELSE IF ActualSlide(actual_content, Head(slides).slide_index) = 0
    THEN CompareContentFrom(actual_content, Tail(slides),
                            mismatches \o MissingSlide(Head(slides)))
    ELSE CompareSlideDone(actual_content, slides, mismatches,
             _compare_slide_shapes(
                 Head(slides).slide_index,
                 actual_content[ActualSlide(actual_content, Head(slides).slide_index)],
                 Head(slides)))

_compare_content(actual_content, intended_content) ==
    CompareContentFrom(actual_content, SlidesByIndex(intended_content), <<>>)

\* the count without the test of the text: every content shape is counted
RECURSIVE count_shapes_without_text_test(_)
count_shapes_without_text_test(intended_content) ==
    IF intended_content = <<>> THEN 0
    ELSE Len(SelectSeq(Head(intended_content).shapes, ContentVerifier_is_content_shape))
         + count_shapes_without_text_test(Tail(intended_content))

RECURSIVE _count_content_shapes(_)
_count_content_shapes(intended_content) ==
    IF intended_content = <<>> THEN 0
    ELSE Len(SelectSeq(Head(intended_content).shapes,
                 LAMBDA shape : /\ ContentVerifier_is_content_shape(shape)
                                /\ Strip(shape.text) # <<>>))
         + _count_content_shapes(Tail(intended_content))

\* the mismatches of a severity
OfSeverity(mismatches, severity) ==
    SelectSeq(mismatches, LAMBDA m : m.severity = severity)

\* the status with the warning for less than two warnings only
status_with_one_warning_allowed(mismatches, success_rate) ==
    IF OfSeverity(mismatches, "critical") = <<>> /\ OfSeverity(mismatches, "warning") = <<>>
    THEN "pass"
    ELSE IF OfSeverity(mismatches, "critical") = <<>>
            /\ Len(OfSeverity(mismatches, "warning")) < 2
    THEN "warning"
    ELSE "fail"

_determine_overall_status(mismatches, success_rate) ==
    IF OfSeverity(mismatches, "critical") = <<>> /\ OfSeverity(mismatches, "warning") = <<>>
    THEN "pass"
    ELSE IF OfSeverity(mismatches, "critical") = <<>>
            /\ Len(OfSeverity(mismatches, "warning")) <= 2
    THEN "warning"
    ELSE "fail"

\* a success rate in percent, as the fraction <<numerator, denominator>>
Rate(successful_matches, content_shapes) ==
    IF content_shapes > 0 THEN <<successful_matches * 100, content_shapes>> ELSE <<0, 1>>

\* a == b for two success rates
RateEqual(a, b) == a[1] * b[2] = b[1] * a[2]

\* VerificationResult; repaired tells the optional fields are not None
VerificationResult(total_slides, total_shapes_checked, successful_matches, mismatches, success_rate, overall_status) ==
    [total_slides |-> total_slides, total_shapes_checked |-> total_shapes_checked,
     successful_matches |-> successful_matches, mismatches |-> mismatches,
     success_rate |-> success_rate, overall_status |-> overall_status,
     repaired |-> FALSE, repair_results |-> <<>>, post_repair_mismatches |-> <<>>,
     post_repair_success_rate |-> <<0, 1>>]

_create_failed_result == VerificationResult(0, 0, 0, <<>>, <<0, 1>>, "fail")

\* lines 102-121: the metrics and the result, for the mismatches found
Report(intended_content, mismatches, content_shapes) ==
    VerificationResult(
        Len(intended_content), content_shapes, content_shapes - Len(mismatches),
        mismatches, Rate(content_shapes - Len(mismatches), content_shapes),
        _determine_overall_status(mismatches,
            Rate(content_shapes - Len(mismatches), content_shapes)))

\* lines 145-147: an exception gives the failed result
ReportCompared(intended_content, compared) ==
    IF compared.raised THEN _create_failed_result
    ELSE Report(intended_content, compared.mismatches,
                _count_content_shapes(intended_content))

\* the verification without the tests of what was extracted and loaded
VerifyOnce_without_load_tests(prs, intended_content) ==
    ReportCompared(intended_content,
        _compare_content(extract_slide_details(prs), intended_content))

\* verify_presentation_content without auto-fix: lines 91-121 and 143-147
VerifyOnce(prs, intended_content) ==
    IF extract_slide_details(prs) = <<>> THEN _create_failed_result
    ELSE IF intended_content = <<>> THEN _create_failed_result
    ELSE ReportCompared(intended_content,
             _compare_content(extract_slide_details(prs), intended_content))

--------------------------------------------------------------------------
(* Auto-repair *)

\* RepairResult; the error message, a text for the log, is left out
RepairResult(mismatch, repair_attempted, repair_successful, repair_method, new_content) ==
    [mismatch |-> mismatch, repair_attempted |-> repair_attempted,
     repair_successful |-> repair_successful, repair_method |-> repair_method,
     new_content |-> new_content]

\* intended_content_map.get(shape_name): the position in the shapes of the
\* slide of the last shape of that name with a name and a text, 0 for None
intended_content_map(slide_data, shape_name) ==
    LET Held(k) == /\ slide_data.shapes[k].name = shape_name
                   /\ slide_data.shapes[k].name # <<>>
                   /\ slide_data.shapes[k].text # <<>>
                   /\ Strip(slide_data.shapes[k].text) # <<>>
    IN  IF \E k \in 1..Len(slide_data.shapes) : Held(k)
        THEN CHOOSE k \in 1..Len(slide_data.shapes) :
                Held(k) /\ \A l \in (k + 1)..Len(slide_data.shapes) : ~Held(l)
        ELSE 0

\* {"shapes": [intended_shape]}, with the defaults the matcher reads from it
ScopedSlideData(intended_shape) ==
    [slide_index |-> 0, slide_layout_name |-> <<"Unknown">>,
     shapes |-> <<intended_shape>>]

\* a slide and the result of the repair of one issue on it
Repaired(slide, repair_result) == [slide |-> slide, repair_result |-> repair_result]

\* lines 699-756: the repair of an issue once the matcher returned
RepairMatched(slide, issue, intended_shape, found) ==
    IF found = <<>>
    THEN Repaired(slide, RepairResult(issue, TRUE, FALSE, "no_match_found", <<>>))
    ELSE IF Strip(intended_shape.text) = <<>>
    THEN Repaired(slide, RepairResult(issue, TRUE, FALSE, "empty_content", <<>>))
    ELSE Repaired([slide EXCEPT !.shapes[found[1].ppt_shape] =
                                    WriteText(@, Strip(intended_shape.text))],
                  RepairResult(issue, TRUE, TRUE, found[1].strategy,
                               Strip(intended_shape.text)))

\* lines 686-697: the repair of an issue once its intended shape was looked up
RepairIntended(slide, slide_data, issue, k) ==
    IF k = 0
    THEN Repaired(slide, RepairResult(issue, FALSE, FALSE, "no_intended_content", <<>>))
    ELSE RepairMatched(slide, issue, slide_data.shapes[k],
             match_placeholders_for_slide(slide, ScopedSlideData(slide_data.shapes[k])))

_attempt_single_repair(slide, slide_data, issue) ==
    RepairIntended(slide, slide_data, issue,
                   intended_content_map(slide_data, issue.shape_name))

\* a slide and the results of the repairs made on it
SlideRepaired(slide, repair_results) ==
    [slide |-> slide, repair_results |-> repair_results, raised |-> FALSE]

\* _repair_slide_issues left by an exception: nothing is returned
SlideRaised(slide) == [slide |-> slide, repair_results |-> <<>>, raised |-> TRUE]

\* the JSON type of shape_data["text"]: a string, a number ("int") or an
\* array ("list")
TextType(shape_data) ==
    IF "text_type" \in DOMAIN shape_data THEN shape_data.text_type ELSE "str"

\* the text of an intent shape is a JSON string, not a number
TextIsStr(shape) == TextType(shape) = "str"

\* lines 643-647: shape_text.strip() raises AttributeError for a truthy text
\* that is no string, once the name was found truthy
MapRaises(slide_data) ==
    \E k \in 1..Len(slide_data.shapes) :
        slide_data.shapes[k].name # <<>> /\ ~TextIsStr(slide_data.shapes[k])

RECURSIVE RepairFrom(_, _, _, _)
\* the rest of a round of the loop, repaired being what the repair gave
RepairNext(slide_data, slide_issues, repair_results, repaired) ==
    RepairFrom(repaired.slide, slide_data, Tail(slide_issues),
               Append(repair_results, repaired.repair_result))

\* the loop of _repair_slide_issues over the issues of the slide
RepairFrom(slide, slide_data, slide_issues, repair_results) ==
    IF slide_issues = <<>> THEN SlideRepaired(slide, repair_results)
    ELSE RepairNext(slide_data, slide_issues, repair_results,
                    _attempt_single_repair(slide, slide_data, Head(slide_issues)))

\* the intended_content_map is built before the first repair is attempted
_repair_slide_issues(slide, slide_data, slide_issues) ==
    IF MapRaises(slide_data) THEN SlideRaised(slide)
    ELSE RepairFrom(slide, slide_data, slide_issues, <<>>)

\* the keys of issues_by_slide, in the order they first occur
IssueSlides(critical_issues) ==
    LET firsts == SelectSeq([j \in 1..Len(critical_issues) |-> j],
                      LAMBDA j : \A k \in 1..(j - 1) :
                                    critical_issues[k].slide_index
                                        # critical_issues[j].slide_index)
    IN  [n \in 1..Len(firsts) |-> critical_issues[firsts[n]].slide_index]

\* the presentation in memory, the results of the repairs made on it, and
\* whether the loop was left by an exception
Fixed(prs, repair_results, raised) ==
    [prs |-> prs, repair_results |-> repair_results, raised |-> raised]

RECURSIVE FixFrom(_, _, _, _, _)
\* the rest of a round of the loop, repaired being what the slide gave; an
\* exception leaves the loop with the results extended so far
FixNext(prs, intended_content, slides, critical_issues, repair_results, repaired) ==
    IF repaired.raised THEN Fixed(prs, repair_results, TRUE)
    ELSE FixFrom([prs EXCEPT ![Head(slides) + 1] = repaired.slide], intended_content,
                 Tail(slides), critical_issues, repair_results \o repaired.repair_results)

\* the loop of _fix_critical_issues over the slides with issues
FixFrom(prs, intended_content, slides, critical_issues, repair_results) ==
    IF slides = <<>> THEN Fixed(prs, repair_results, FALSE)
    ELSE IF Head(slides) < Len(prs) /\ Head(slides) < Len(intended_content)
    THEN FixNext(prs, intended_content, slides, critical_issues, repair_results,
             _repair_slide_issues(
                 prs[Head(slides) + 1], intended_content[Head(slides) + 1],
                 SelectSeq(critical_issues,
                           LAMBDA issue : issue.slide_index = Head(slides))))
    ELSE FixFrom(prs, intended_content, Tail(slides), critical_issues, repair_results)

\* lines 609-618: a failed result for every issue
FailedResults(critical_issues) ==
    [j \in 1..Len(critical_issues) |->
        RepairResult(critical_issues[j], FALSE, FALSE, "none", <<>>)]

\* lines 604 and 607-618: the presentation is saved when the loop ended; after an
\* exception the file stays as it was and the failed results are appended
FixEnded(prs, critical_issues, fixed) ==
    IF fixed.raised
    THEN [prs |-> prs, saved |-> FALSE,
          repair_results |-> fixed.repair_results \o FailedResults(critical_issues)]
    ELSE [prs |-> fixed.prs, saved |-> TRUE, repair_results |-> fixed.repair_results]

\* the presentation file as _fix_critical_issues leaves it, whether it was
\* saved, and the results of the repairs
_fix_critical_issues(prs, intended_content, critical_issues) ==
    FixEnded(prs, critical_issues,
             FixFrom(prs, intended_content, IssueSlides(critical_issues),
                     critical_issues, <<>>))

_post_repair_verification(prs, intended_content) == VerifyOnce(prs, intended_content)

\* what a run of the verifier leaves: its result, the presentation file, and
\* whether the file was saved
Verified(verification, prs, saved) ==
    [result |-> verification, prs |-> prs, saved |-> saved]

\* lines 138-141: the result with the outcome of the post-repair verification
WithPostRepair(verification, fixed, post_repair_result) ==
    Verified([verification EXCEPT
                 !.repaired = TRUE,
                 !.repair_results = fixed.repair_results,
                 !.post_repair_mismatches = post_repair_result.mismatches,
                 !.post_repair_success_rate = post_repair_result.success_rate],
             fixed.prs, fixed.saved)

\* lines 131-137: the repairs, then the verification of the saved file
WithRepairs(verification, intended_content, fixed) ==
    WithPostRepair(verification, fixed,
                   _post_repair_verification(fixed.prs, intended_content))

\* the repair of every mismatch, whatever its severity
AutoFix_any_severity(prs, intended_content, auto_fix_critical, verification) ==
    IF auto_fix_critical /\ verification.mismatches # <<>>
    THEN WithRepairs(verification, intended_content,
             _fix_critical_issues(prs, intended_content, verification.mismatches))
    ELSE Verified(verification, prs, FALSE)

\* lines 123-141: auto-fix when it is requested and a critical issue was found
AutoFix(prs, intended_content, auto_fix_critical, verification) ==
    IF auto_fix_critical /\ OfSeverity(verification.mismatches, "critical") # <<>>
    THEN WithRepairs(verification, intended_content,
             _fix_critical_issues(prs, intended_content,
                                  OfSeverity(verification.mismatches, "critical")))
    ELSE Verified(verification, prs, FALSE)

verify_presentation_content(prs, intended_content, auto_fix_critical) ==
    AutoFix(prs, intended_content, auto_fix_critical, VerifyOnce(prs, intended_content))

--------------------------------------------------------------------------
(* Inputs *)

MaxIntentShapes == 2
MaxDocShapes == 2

NoCall == [made |-> FALSE, shape_data |-> <<>>, used |-> {}, match |-> NoMatch]
\* no verification was made yet
NoResult == VerificationResult(0, 0, 0, <<>>, <<0, 1>>, "none")

\* no repair pass is under way
NoFix == Fixed(<<>>, <<>>, FALSE)

\* no reconcile was made yet
NoWrite == [before |-> <<>>, updated_count |-> 0]

DocShape(name, left, top, ptype, paras) ==
    [name |-> name, left |-> left, top |-> top, has_text_frame |-> TRUE,
     placeholder_type |-> ptype, paras |-> paras]

IntentShape(name, ptype, left, top, text) ==
    [name |-> name, placeholder_type |-> ptype, left_inches |-> left,
     top_inches |-> top, has_text_frame |-> TRUE, text |-> text]

\* the shapes a slide of the template may hold
DocShapePool ==
    { DocShape(<<"Title", " ", "1">>, 0, 0, "TITLE", <<<<>>>>),
      DocShape(<<"Content", " ", "Placeholder", " ", "2">>, 0, 100000, "OBJECT", <<<<>>>>),
      DocShape(<<"Content", " ", "Placeholder", " ", "3">>, 600000, 100000, "OBJECT",
               <<<<"Old">>>>),
      DocShape(<<"Footer">>, 0, 900000, "", <<<<"Alpha">>, <<"Beta">>>>),
      DocShape(<<"Slide", " ", "Number", " ", "5">>, 900000, 900000, "SLIDE_NUMBER",
               <<<<"7">>>>) }

\* the shapes an intent slide may declare
IntentShapePool ==
    { IntentShape(<<"TITLE", " ", "1">>, "TITLE", 0, 0, <<"Alpha">>),
      IntentShape(<<"Content", " ", "Placeholder", " ", "2">>, "OBJECT", 0, 100000,
                  <<"Alpha", "\n", "Beta">>),
      IntentShape(<<"Placeholder", " ", "2">>, "OBJECT", 0, 100000, <<"Beta">>),
      IntentShape(<<"Content", " ", "Left">>, "OBJECT", 300000, 100000, <<"Old">>),
      IntentShape(<<>>, "BODY", 600000, 100000, <<>>),
      IntentShape(<<"Slide", " ", "Number", " ", "5">>, "SLIDE_NUMBER", 900000, 900000,
                  <<"7">>) }

LayoutPool == { <<"Title", " ", "and", " ", "Content">>, <<"Two", " ", "Content">> }

\* the sequences of at most n distinct elements of a set
DistinctSeqs(S, n) ==
    UNION { { q \in [1..k -> S] : \A i, j \in 1..k : i # j => q[i] # q[j] } : k \in 1..n }

DocSlides == { [shapes |-> q] : q \in DistinctSeqs(DocShapePool, MaxDocShapes) }

IntentSlides ==
    { [slide_index |-> 0, slide_layout_name |-> l, shapes |-> q] :
        l \in LayoutPool, q \in DistinctSeqs(IntentShapePool, MaxIntentShapes) }

--------------------------------------------------------------------------
(* One matching pass over a slide, a content shape at a time *)

InitMatch ==
    /\ intent \in { <<s>> : s \in IntentSlides }
    /\ doc \in { <<s>> : s \in DocSlides }
    /\ pc = "match"
    /\ context = _create_slide_context(doc[1], intent[1])
    /\ todo = _filter_content_shapes(intent[1])
    /\ matches = <<>>
    /\ call = NoCall
    /\ applied = NoWrite
    /\ result = NoResult
    /\ result2 = NoResult
    /\ saves = 0
    /\ fix = NoFix

\* lines 67-69: the match, if any, is collected and its shape consumed
Collect(best_match) ==
    /\ call' = [made |-> TRUE, shape_data |-> Head(todo), used |-> context.used,
                match |-> best_match]
    /\ context' = Consume(context, best_match)
    /\ matches' = IF best_match = NoMatch THEN matches
                  ELSE Append(matches, PlaceholderMatch(Head(todo), best_match))

\* lines 65-69: _find_best_match for the next content shape, and its consumption
MatchNext ==
    /\ pc = "match"
    /\ todo # <<>>
    /\ Collect(_find_best_match(Head(todo), context, doc[1]))
    /\ todo' = Tail(todo)
    /\ UNCHANGED <<intent, doc, pc, applied, result, result2, saves, fix>>

\* line 78: the matches are returned sorted by confidence
MatchReturn ==
    /\ pc = "match"
    /\ todo = <<>>
    /\ matches' = SortByConfidence(matches)
    /\ pc' = "returned"
    /\ UNCHANGED <<intent, doc, context, todo, call, applied, result, result2, saves, fix>>

NextMatch == MatchNext \/ MatchReturn

SpecMatch == InitMatch /\ [][NextMatch]_vars

--------------------------------------------------------------------------
(* Properties of the matching pass *)

\* the SlideContext as it was when the last _find_best_match call was made
CallContext == [context EXCEPT !.used = call.used]

\* the shapes that were eligible and unconsumed at the last call
CallUnused == Unused(CallContext)

\* the confidence strategy k gives for the argument of the last call
CallConfidence(k) == Strategy(k, call.shape_data, CallContext, doc[1]).confidence

StrategyIndex(s) ==
    CASE s = "exact_name" -> 1 [] s = "placeholder_number" -> 2
      [] s = "position_based" -> 3 [] s = "layout_pattern" -> 4
      [] s = "content_similarity" -> 5 [] s = "fallback_order" -> 6
      [] OTHER -> 0

\* C1: within one matching pass no document shape is the target of two matches
C1_NoShapeMatchedTwice ==
    \A i, j \in 1..Len(matches) :
        i # j => matches[i].ppt_shape # matches[j].ppt_shape

\* two matches were returned, and the intent shape of one of them would have
\* taken the target of the other had that target not been consumed
C1_Witness ==
    /\ pc = "returned"
    /\ \E i, j \in 1..Len(matches) :
          /\ i # j
          /\ _find_best_match(matches[j].json_shape,
                              [context EXCEPT !.used = {}], doc[1]).ppt_shape
                 = matches[i].ppt_shape

\* an eligible, unconsumed shape has the name of the intent shape, ignoring case
HasNameSake ==
    /\ call.made
    /\ call.shape_data.name # <<>>
    /\ \E k \in 1..Len(CallUnused) :
          Lower(doc[1].shapes[CallUnused[k]].name) = Lower(call.shape_data.name)

\* C2: when an eligible unconsumed shape has the name of the intent shape
\* ignoring case, _find_best_match returns such a shape with strategy exact_name
\* and confidence 1.0
C2_ExactNameWins ==
    HasNameSake =>
        /\ call.match.strategy = "exact_name"
        /\ call.match.confidence = 1000
        /\ call.match.ppt_shape \in {CallUnused[k] : k \in 1..Len(CallUnused)}
        /\ Lower(doc[1].shapes[call.match.ppt_shape].name) = Lower(call.shape_data.name)

\* the name matched although it differs in case, and another strategy would
\* have returned another shape
C2_Witness ==
    /\ HasNameSake
    /\ call.match.strategy = "exact_name"
    /\ doc[1].shapes[call.match.ppt_shape].name # call.shape_data.name
    /\ \E k \in 2..NumStrategies :
          /\ Strategy(k, call.shape_data, CallContext, doc[1]) # NoMatch
          /\ Strategy(k, call.shape_data, CallContext, doc[1]).ppt_shape
                 # call.match.ppt_shape

\* C3 as claimed: no strategy, evaluated or skipped, gives a confidence above
\* that of the returned match
C3_MaxOfAllStrategies ==
    call.made => \A k \in 1..NumStrategies : CallConfidence(k) <= call.match.confidence

\* C3 as amended: a strategy gives a confidence above that of the returned
\* match only if the returned match caused the early exit (confidence >= 0.9)
\* and the strategy comes after it in the order, so was skipped
C3_MaxOfEvaluated ==
    call.made =>
        \A k \in 1..NumStrategies :
            CallConfidence(k) > call.match.confidence =>
                /\ EarlyExit(call.match.confidence)
                /\ k > StrategyIndex(call.match.strategy)

\* a match below the early exit was returned, ahead of a strategy that comes
\* before it in the order and of one that comes after it, both of less confidence
C3_Witness ==
    /\ call.made
    /\ call.match # NoMatch
    /\ ~EarlyExit(call.match.confidence)
    /\ \E k \in 1..NumStrategies :
          k < StrategyIndex(call.match.strategy)
          /\ 0 < CallConfidence(k) /\ CallConfidence(k) < call.match.confidence
    /\ \E k \in 1..NumStrategies :
          k > StrategyIndex(call.match.strategy)
          /\ 0 < CallConfidence(k) /\ CallConfidence(k) < call.match.confidence

\* C6 as claimed: whatever the role, when an eligible shape is still unconsumed
\* _find_best_match returns a match
C6_FallbackGuarantee ==
    (call.made /\ CallUnused # <<>>) => call.match # NoMatch

\* the distance of the target of a collected match from the declared position
MatchDistance(m) == Distance(m.json_shape, doc[1].shapes[m.ppt_shape])

\* C11 as claimed: a match has confidence 1.0 only if its strategy is
\* exact_name; no other strategy ever produces a match of confidence 1.0
C11_FullConfidenceOnlyExactName ==
    \A i \in 1..Len(matches) :
        matches[i].confidence = 1000 => matches[i].strategy = "exact_name"

\* C11 as amended: a match of confidence 1.0 is an exact_name match or a
\* position_based match whose target lies at the declared position (distance 0)
C11_FullConfidenceExactOrOnTheSpot ==
    \A i \in 1..Len(matches) :
        matches[i].confidence = 1000 =>
            \/ matches[i].strategy = "exact_name"
            \/ /\ matches[i].strategy = "position_based"
               /\ MatchDistance(matches[i]) = 0

\* the returned matches hold one of each kind at confidence 1.0 or a position
\* match off the declared position, which stays below 1.0
C11_Witness ==
    /\ pc = "returned"
    /\ \E i \in 1..Len(matches) :
          matches[i].strategy = "position_based" /\ matches[i].confidence = 1000
    /\ \E i \in 1..Len(matches) :
          \/ matches[i].strategy = "exact_name"
          \/ /\ matches[i].strategy = "position_based"
             /\ MatchDistance(matches[i]) > 0
             /\ matches[i].confidence < 1000

\* the rank of the role of an intent shape: TITLE, then OBJECT, then the rest
RoleRank(shape_data) ==
    CASE shape_data.placeholder_type = "TITLE" -> 1
      [] shape_data.placeholder_type = "OBJECT" -> 2
      [] OTHER -> 3

\* the place of a shape in the intent slide
IntentPlace(shape_data) ==
    CHOOSE k \in 1..Len(intent[1].shapes) : intent[1].shapes[k] = shape_data

\* a shape is resolved before another one: its role ranks first, or the roles
\* rank alike and the intent declares it first
ResolvedBefore(a, b) ==
    \/ RoleRank(a) < RoleRank(b)
    \/ RoleRank(a) = RoleRank(b) /\ IntentPlace(a) < IntentPlace(b)

--------------------------------------------------------------------------
(* The reconcile-then-verify cycle on a presentation of one slide *)

\* the reconcile of the engine: apply_advanced_content_matching on every slide
\* that has an intent slide, by position; each slide and its updated_count
ReconcileAll(prs, slides_data) ==
    [i \in 1..Len(prs) |->
        IF i <= Len(slides_data)
        THEN apply_advanced_content_matching(prs[i], slides_data[i])
        ELSE [slide |-> prs[i], updated_count |-> 0]]

\* the shapes a slide of the generated presentation may hold; a picture has no
\* text frame
CycleDocShapePool ==
    { DocShape(<<"Title", " ", "1">>, 0, 0, "TITLE", <<<<>>>>),
      DocShape(<<"Content", " ", "Placeholder", " ", "2">>, 0, 100000, "OBJECT", <<<<>>>>),
      DocShape(<<"Content", " ", "Placeholder", " ", "3">>, 600000, 100000, "OBJECT",
               <<<<"Click", " ", "to", " ", "add", " ", "text">>>>),
      [DocShape(<<"Picture", " ", "4">>, 0, 0, "", <<>>) EXCEPT !.has_text_frame = FALSE] }

\* the shapes an intent slide of the cycle may declare
CycleIntentShapePool ==
    { IntentShape(<<"TITLE", " ", "1">>, "TITLE", 0, 0, <<"Alpha">>),
      IntentShape(<<"Content", " ", "Placeholder", " ", "2">>, "OBJECT", 0, 100000,
                  <<"Alpha", "\n", "Beta">>),
      IntentShape(<<"Content", " ", "Placeholder", " ", "3">>, "OBJECT", 600000, 100000,
                  <<"7">>),
      IntentShape(<<"Text", " ", "4">>, "BODY", 600000, 100000, <<"Add", " ", "Text">>),
      IntentShape(<<"Slide", " ", "Number", " ", "5">>, "SLIDE_NUMBER", 900000, 900000,
                  <<"7">>),
      IntentShape(<<"Subtitle", " ", "6">>, "SUBTITLE", 0, 500000, <<>>) }

\* the slide_index an intent slide may carry: that of the slide, or one the
\* presentation does not have
SlideIndexPool == {0, 1}

CycleDocSlides == { [shapes |-> q] : q \in DistinctSeqs(CycleDocShapePool, MaxDocShapes) }

CycleIntentSlides ==
    { [slide_index |-> n, slide_layout_name |-> <<"Title", " ", "and", " ", "Content">>,
       shapes |-> q] :
        n \in SlideIndexPool, q \in DistinctSeqs(CycleIntentShapePool, MaxIntentShapes) }

InitCycle ==
    /\ intent \in { <<s>> : s \in CycleIntentSlides }
    /\ doc \in { <<s>> : s \in CycleDocSlides }
    /\ pc = "start"
    /\ context = _create_slide_context(doc[1], intent[1])
    /\ todo = <<>>
    /\ matches = <<>>
    /\ call = NoCall
    /\ applied = NoWrite
    /\ result = NoResult
    /\ result2 = NoResult
    /\ saves = 0
    /\ fix = NoFix

\* the presentation after a reconcile, and what the reconcile leaves to see
Reconciled(reconciled) ==
    /\ doc' = [i \in 1..Len(doc) |-> reconciled[i].slide]
    /\ applied' = [before |-> doc, updated_count |-> reconciled[1].updated_count]

\* a reconcile: match and apply on every slide, first or second cycle
Reconcile ==
    /\ pc \in {"start", "verified"}
    /\ Reconciled(ReconcileAll(doc, intent))
    /\ matches' = match_placeholders_for_slide(doc[1], intent[1])
    /\ pc' = IF pc = "start" THEN "applied" ELSE "applied2"
    /\ UNCHANGED <<intent, context, todo, call, result, result2, saves, fix>>

\* what a verification without auto-fix leaves: its result, of the first or of
\* the second cycle, and the presentation file
VerifyEnded(verified) ==
    /\ IF pc = "applied"
       THEN result' = verified.result /\ UNCHANGED result2
       ELSE result2' = verified.result /\ UNCHANGED result
    /\ doc' = verified.prs
    /\ saves' = IF verified.saved THEN saves + 1 ELSE saves

\* a verification without auto-fix, of the first or of the second cycle
Verify ==
    /\ pc \in {"applied", "applied2"}
    /\ VerifyEnded(verify_presentation_content(doc, intent, FALSE))
    /\ pc' = IF pc = "applied" THEN "verified" ELSE "verified2"
    /\ UNCHANGED <<intent, context, todo, matches, call, applied, fix>>

\* what a verification with auto-fix leaves: its result and the saved file
AutoFixed(verified) ==
    /\ result' = verified.result
    /\ doc' = verified.prs
    /\ saves' = IF verified.saved THEN saves + 1 ELSE saves

\* a verification with auto-fix, of a presentation reconciled or not
VerifyAutoFix ==
    /\ pc \in {"start", "applied"}
    /\ AutoFixed(verify_presentation_content(doc, intent, TRUE))
    /\ pc' = "fixed"
    /\ UNCHANGED <<intent, context, todo, matches, call, applied, result2, fix>>

NextCycle == Reconcile \/ Verify \/ VerifyAutoFix

SpecCycle == InitCycle /\ [][NextCycle]_vars

--------------------------------------------------------------------------
(* The auto-fix run on a presentation of several slides *)

MaxSlides == 2

\* the slides a generated presentation may hold
RepairDocSlidePool ==
    { [shapes |-> <<DocShape(<<"Title", " ", "1">>, 0, 0, "TITLE", <<<<>>>>)>>],
      [shapes |-> <<DocShape(<<"Title", " ", "1">>, 0, 0, "TITLE", <<<<"Alpha">>>>)>>],
      [shapes |-> <<DocShape(<<"Title", " ", "1">>, 0, 0, "TITLE", <<<<>>>>),
                    DocShape(<<"Content", " ", "Placeholder", " ", "2">>, 0, 100000,
                             "OBJECT", <<<<>>>>)>>] }

\* a slide-number shape whose text is the JSON number 7, not the string "7"
NumberedShape ==
    [name |-> <<"Slide", " ", "Number", " ", "5">>, placeholder_type |-> "SLIDE_NUMBER",
     left_inches |-> 900000, top_inches |-> 900000, has_text_frame |-> TRUE,
     text |-> <<"7">>, text_type |-> "int"]

\* the shapes an intent slide may declare, slide by slide
RepairIntentShapesPool ==
    { <<IntentShape(<<"TITLE", " ", "1">>, "TITLE", 0, 0, <<"Alpha">>)>>,
      <<IntentShape(<<"TITLE", " ", "1">>, "TITLE", 0, 0, <<"Alpha">>), NumberedShape>>,
      <<IntentShape(<<"TITLE", " ", "1">>, "TITLE", 0, 0, <<"Alpha", " ", "Beta">>)>>,
      <<IntentShape(<<"Content", " ", "Placeholder", " ", "2">>, "OBJECT", 0, 100000,
                    <<"Alpha", "\n", "Beta">>)>>,
      <<IntentShape(<<"TITLE", " ", "1">>, "TITLE", 0, 0, <<"Alpha">>),
        IntentShape(<<"Content", " ", "Placeholder", " ", "2">>, "OBJECT", 0, 100000,
                    <<"Alpha", "\n", "Beta">>)>> }

\* the presentations of at most MaxSlides slides
RepairDocs == UNION { [1..n -> RepairDocSlidePool] : n \in 1..MaxSlides }

\* the intent files of at most MaxSlides slides, slide_index by position
RepairIntents ==
    UNION { { [i \in 1..n |->
                 [slide_index |-> i - 1,
                  slide_layout_name |-> <<"Title", " ", "and", " ", "Content">>,
                  shapes |-> q[i]]] : q \in [1..n -> RepairIntentShapesPool] } :
            n \in 1..MaxSlides }

InitRepair ==
    /\ intent \in RepairIntents
    /\ doc \in RepairDocs
    /\ pc = "start"
    /\ context = _create_slide_context(doc[1], intent[1])
    /\ todo = <<>>
    /\ matches = <<>>
    /\ call = NoCall
    /\ applied = NoWrite
    /\ result = NoResult
    /\ result2 = NoResult
    /\ saves = 0
    /\ fix = NoFix

\* the presentation is reconciled or not, then verified with or without auto-fix
NextRepair == Reconcile \/ Verify \/ VerifyAutoFix

SpecRepair == InitRepair /\ [][NextRepair]_vars

--------------------------------------------------------------------------
(* The auto-fix run, a step at a time: verify, repair slide by slide, save or
   fail, verify again *)

InitAutoFix ==
    /\ intent \in RepairIntents
    /\ doc \in RepairDocs
    /\ pc = "start"
    /\ context = _create_slide_context(doc[1], intent[1])
    /\ todo = <<>>
    /\ matches = <<>>
    /\ call = NoCall
    /\ applied = [before |-> doc, updated_count |-> 0]
    /\ result = NoResult
    /\ result2 = NoResult
    /\ saves = 0
    /\ fix = NoFix

\* lines 123-131 and 577-587: the critical issues are handed to the repair
\* pass, which loads the presentation and groups the issues by slide
Verification(verification) ==
    /\ result' = verification
    /\ IF OfSeverity(verification.mismatches, "critical") # <<>>
       THEN /\ pc' = "repair"
            /\ todo' = IssueSlides(OfSeverity(verification.mismatches, "critical"))
            /\ fix' = Fixed(doc, <<>>, FALSE)
       ELSE /\ pc' = "fixed"
            /\ UNCHANGED <<todo, fix>>

\* lines 91-131: the verification of a run with auto_fix_critical
StartVerify ==
    /\ pc = "start"
    /\ Verification(VerifyOnce(doc, intent))
    /\ UNCHANGED <<intent, doc, context, matches, call, applied, result2, saves>>

\* lines 598-601: what the repair of a slide leaves
SlideDone(repaired) ==
    fix' = IF repaired.raised THEN Fixed(fix.prs, fix.repair_results, TRUE)
           ELSE Fixed([fix.prs EXCEPT ![Head(todo) + 1] = repaired.slide],
                      fix.repair_results \o repaired.repair_results, FALSE)

\* lines 590-601: one round of the loop over the slides with issues
RepairSlide ==
    /\ pc = "repair"
    /\ ~fix.raised
    /\ todo # <<>>
    /\ IF Head(todo) < Len(fix.prs) /\ Head(todo) < Len(intent)
       THEN SlideDone(_repair_slide_issues(
                fix.prs[Head(todo) + 1], intent[Head(todo) + 1],
                SelectSeq(OfSeverity(result.mismatches, "critical"),
                          LAMBDA issue : issue.slide_index = Head(todo))))
       ELSE UNCHANGED fix
    /\ todo' = Tail(todo)
    /\ UNCHANGED <<intent, doc, pc, context, matches, call, applied, result, result2,
                   saves>>

\* line 604: prs.save once the loop has ended
Save ==
    /\ pc = "repair"
    /\ ~fix.raised
    /\ todo = <<>>
    /\ doc' = fix.prs
    /\ saves' = saves + 1
    /\ pc' = "post"
    /\ UNCHANGED <<intent, context, todo, matches, call, applied, result, result2, fix>>

\* lines 607-618: the handler of an exception raised in the loop
RepairFailed ==
    /\ pc = "repair"
    /\ fix.raised
    /\ fix' = [fix EXCEPT !.repair_results =
                  @ \o FailedResults(OfSeverity(result.mismatches, "critical"))]
    /\ pc' = "post"
    /\ UNCHANGED <<intent, doc, context, todo, matches, call, applied, result, result2,
                   saves>>

\* lines 134-141: the results of the repairs and of the second verification
\* are stored in the result
PostRepairStored(post_repair_result) ==
    result' = [result EXCEPT
                  !.repaired = TRUE,
                  !.repair_results = fix.repair_results,
                  !.post_repair_mismatches = post_repair_result.mismatches,
                  !.post_repair_success_rate = post_repair_result.success_rate]

\* lines 134-141: the file is verified again, without auto-fix
PostRepairVerify ==
    /\ pc = "post"
    /\ PostRepairStored(_post_repair_verification(doc, intent))
    /\ pc' = "fixed"
    /\ UNCHANGED <<intent, doc, context, todo, matches, call, applied, result2, saves,
                   fix>>

NextAutoFix == StartVerify \/ RepairSlide \/ Save \/ RepairFailed \/ PostRepairVerify

SpecAutoFix == InitAutoFix /\ [][NextAutoFix]_vars

\* the run made a step at a time leaves what verify_presentation_content
\* with auto_fix_critical gives for the presentation as it was
StepsAgree ==
    pc = "fixed" =>
        /\ result = verify_presentation_content(applied.before, intent, TRUE).result
        /\ doc = verify_presentation_content(applied.before, intent, TRUE).prs
        /\ (saves = 1) = verify_presentation_content(applied.before, intent, TRUE).saved

--------------------------------------------------------------------------
(* apply_advanced_content_matching on a slide, a match at a time *)

\* the shapes of the slide that is written
WriteDocShapePool ==
    { DocShape(<<"Title", " ", "1">>, 0, 0, "TITLE", <<<<>>>>),
      DocShape(<<"Content", " ", "Placeholder", " ", "2">>, 0, 100000, "OBJECT", <<<<>>>>),
      DocShape(<<"Content", " ", "Placeholder", " ", "3">>, 600000, 100000, "OBJECT",
               <<<<"Old">>>>) }

\* the shapes the intent slide may declare: titles with and without the name
\* of the shape of the slide, content, a text box, a subtitle without text
WriteIntentShapePool ==
    { IntentShape(<<"Title">>, "TITLE", 0, 200000, <<"Alpha">>),
      IntentShape(<<"TITLE", " ", "1">>, "TITLE", 0, 0, <<"Beta">>),
      IntentShape(<<"Content", " ", "Placeholder", " ", "2">>, "OBJECT", 0, 100000,
                  <<"Alpha", "\n", "Beta">>),
      IntentShape(<<"Text", " ", "4">>, "BODY", 600000, 0, <<"Beta">>),
      IntentShape(<<"Subtitle", " ", "6">>, "SUBTITLE", 0, 500000, <<>>) }

InitWrite ==
    /\ intent \in { << [slide_index |-> 0,
                        slide_layout_name |-> <<"Title", " ", "and", " ", "Content">>,
                        shapes |-> q] >> :
                    q \in DistinctSeqs(WriteIntentShapePool, MaxIntentShapes) }
    /\ doc \in { << [shapes |-> q] >> : q \in DistinctSeqs(WriteDocShapePool, MaxDocShapes) }
    /\ pc = "start"
    /\ context = _create_slide_context(doc[1], intent[1])
    /\ todo = <<>>
    /\ matches = <<>>
    /\ call = NoCall
    /\ applied = NoWrite
    /\ result = NoResult
    /\ result2 = NoResult
    /\ saves = 0
    /\ fix = NoFix

\* lines 469-472: the matcher returns the list the loop goes through
Matched(found) ==
    /\ matches' = found
    /\ todo' = found

ApplyStart ==
    /\ pc = "start"
    /\ Matched(match_placeholders_for_slide(doc[1], intent[1]))
    /\ applied' = [before |-> doc, updated_count |-> 0]
    /\ pc' = "apply"
    /\ UNCHANGED <<intent, doc, context, call, result, result2, saves, fix>>

\* lines 475-505: one round of the loop, new_text being the text to write, if
\* any; call keeps the match that was written last
Written(match, new_text) ==
    IF new_text = <<>> THEN UNCHANGED <<doc, applied, call>>
    ELSE /\ doc' = [doc EXCEPT ![1].shapes[match.ppt_shape] = WriteText(@, new_text)]
         /\ applied' = [applied EXCEPT !.updated_count = @ + 1]
         /\ call' = [NoCall EXCEPT !.made = TRUE, !.shape_data = match.json_shape,
                                   !.match = match]

ApplyNext ==
    /\ pc = "apply"
    /\ todo # <<>>
    /\ Written(Head(todo), TextToWrite(Head(todo).json_shape.text))
    /\ todo' = Tail(todo)
    /\ UNCHANGED <<intent, pc, context, matches, result, result2, saves, fix>>

\* line 516: return updated_count
ApplyReturn ==
    /\ pc = "apply"
    /\ todo = <<>>
    /\ pc' = "applied"
    /\ UNCHANGED <<intent, doc, context, todo, matches, call, applied, result, result2,
                   saves, fix>>

NextWrite == ApplyStart \/ ApplyNext \/ ApplyReturn

SpecWrite == InitWrite /\ [][NextWrite]_vars

\* the apply made a match at a time leaves the slide and the count that
\* apply_advanced_content_matching gives
WritesAgree ==
    pc = "applied" =>
        /\ doc[1] = apply_advanced_content_matching(applied.before[1], intent[1]).slide
        /\ applied.updated_count
               = apply_advanced_content_matching(applied.before[1], intent[1]).updated_count

--------------------------------------------------------------------------
(* The cycle on a slide that holds shapes that look like slide numbers *)

\* the shapes of the slide: a slide number, a content placeholder that holds a
\* numeral, an empty content placeholder, a title
NumberDocShapePool ==
    { DocShape(<<"Slide", " ", "Number", " ", "5">>, 900000, 900000, "SLIDE_NUMBER",
               <<<<>>>>),
      DocShape(<<"Content", " ", "Placeholder", " ", "2">>, 0, 100000, "OBJECT",
               <<<<"1", "2">>>>),
      DocShape(<<"Content", " ", "Placeholder", " ", "3">>, 600000, 100000, "OBJECT",
               <<<<>>>>),
      DocShape(<<"Title", " ", "1">>, 0, 0, "TITLE", <<<<>>>>) }

\* the shapes of the intent: a text box with the name of the slide number, the
\* content of the placeholders, one of them a numeral, a text box at the place
\* of the slide number
NumberIntentShapePool ==
    { IntentShape(<<"Slide", " ", "Number", " ", "5">>, "BODY", 900000, 900000,
                  <<"Alpha">>),
      IntentShape(<<"Content", " ", "Placeholder", " ", "2">>, "OBJECT", 0, 100000,
                  <<"Alpha", "\n", "Beta">>),
      IntentShape(<<"Content", " ", "Placeholder", " ", "3">>, "OBJECT", 600000, 100000,
                  <<"7">>),
      IntentShape(<<"Text", " ", "4">>, "BODY", 900000, 900000, <<"Beta">>) }

InitNumber ==
    /\ intent \in { << [slide_index |-> 0,
                        slide_layout_name |-> <<"Title", " ", "and", " ", "Content">>,
                        shapes |-> q] >> :
                    q \in DistinctSeqs(NumberIntentShapePool, MaxIntentShapes) }
    /\ doc \in { << [shapes |-> q] >> : q \in DistinctSeqs(NumberDocShapePool, MaxDocShapes) }
    /\ pc = "start"
    /\ context = _create_slide_context(doc[1], intent[1])
    /\ todo = <<>>
    /\ matches = <<>>
    /\ call = NoCall
    /\ applied = NoWrite
    /\ result = NoResult
    /\ result2 = NoResult
    /\ saves = 0
    /\ fix = NoFix

NextNumber == Reconcile \/ Verify \/ VerifyAutoFix

SpecNumber == InitNumber /\ [][NextNumber]_vars

--------------------------------------------------------------------------
(* One call of _analyze_content_match on an intended and an actual text *)

MaxWords == 3

\* the words of the intended texts, and those of the actual texts
IntendedWords == {"Click", "to", "add"}
ActualWords == IntendedWords \cup {"Alpha"}

\* the texts of at most MaxWords words, the words joined by a separator
WordTexts(words, sep) ==
    UNION { { Join(ws, sep) : ws \in [1..n -> { <<w>> : w \in words }] } :
            n \in 0..MaxWords }

\* the call that is made: the texts, and the mismatch once it has returned
AnalyzeCall(intended_text, actual_text, made, mismatch) ==
    [made |-> made, intended_text |-> intended_text, actual_text |-> actual_text,
     mismatch |-> mismatch]

InitAnalyze ==
    /\ intent = <<>>
    /\ doc = <<>>
    /\ pc = "analyze"
    /\ context = _create_slide_context([shapes |-> <<>>],
                     [slide_index |-> 0, slide_layout_name |-> <<>>, shapes |-> <<>>])
    /\ todo = <<>>
    /\ matches = <<>>
    /\ call \in { AnalyzeCall(intended_text, actual_text, FALSE, NoMismatch) :
                    intended_text \in WordTexts(IntendedWords, <<" ">>),
                    actual_text \in WordTexts(ActualWords, <<" ">>)
                                        \cup WordTexts(ActualWords, <<"\n">>) }
    /\ applied = NoWrite
    /\ result = NoResult
    /\ result2 = NoResult
    /\ saves = 0
    /\ fix = NoFix

\* the call returns
Analyze ==
    /\ pc = "analyze"
    /\ call' = AnalyzeCall(call.intended_text, call.actual_text, TRUE,
                   _analyze_content_match(0, <<"Content", " ", "Placeholder", " ", "2">>,
                                          "OBJECT", call.intended_text, call.actual_text))
    /\ pc' = "analyzed"
    /\ UNCHANGED <<intent, doc, context, todo, matches, applied, result, result2, saves,
                   fix>>

NextAnalyze == Analyze

SpecAnalyze == InitAnalyze /\ [][NextAnalyze]_vars

--------------------------------------------------------------------------
(* One apply of a text on a slide of one shape *)

MaxTextLen == 3

\* the tokens of the texts that are applied
TextTokens == {"A", "B", " ", "\n", "(missing)"}

\* the texts of at most MaxTextLen tokens
Texts == UNION { [1..n -> TextTokens] : n \in 0..MaxTextLen }

\* a slide of one content placeholder, empty or with prior content
ApplyDocSlides ==
    { [shapes |-> <<DocShape(<<"Content", " ", "Placeholder", " ", "2">>, 0, 100000,
                             "OBJECT", paras)>>] :
        paras \in { <<<<>>>>, <<<<"Old">>>>, <<<<"Old">>, <<"Beta">>>> } }

ApplyIntentSlides ==
    { [slide_index |-> 0, slide_layout_name |-> <<"Title", " ", "and", " ", "Content">>,
       shapes |-> <<IntentShape(<<"Content", " ", "Placeholder", " ", "2">>, "OBJECT",
                                0, 100000, text)>>] :
        text \in Texts }

InitApply ==
    /\ intent \in { <<s>> : s \in ApplyIntentSlides }
    /\ doc \in { <<s>> : s \in ApplyDocSlides }
    /\ pc = "start"
    /\ context = _create_slide_context(doc[1], intent[1])
    /\ todo = <<>>
    /\ matches = <<>>
    /\ call = NoCall
    /\ applied = NoWrite
    /\ result = NoResult
    /\ result2 = NoResult
    /\ saves = 0
    /\ fix = NoFix

NextApply == Reconcile

SpecApply == InitApply /\ [][NextApply]_vars

--------------------------------------------------------------------------
(* Properties of the apply *)

\* the text of the intent shape of the slide of one shape
AppliedText == intent[1].shapes[1].text

\* the text without the "(missing)" marker
WithoutMarker(text) == Remove(Remove(text, <<" ", "(missing)">>), <<"(missing)">>)

\* the stripped non-blank lines of a text, in order
NonBlankLines(text) ==
    SelectSeq([i \in 1..Len(SplitLines(text)) |-> Strip(SplitLines(text)[i])],
              LAMBDA line : line # <<>>)

\* the apply was made and the intent shape was matched
ApplyMatched == pc = "applied" /\ matches # <<>>

\* C9 as claimed: after the apply of a text with a non-blank line the text
\* container of the matched shape holds exactly the stripped non-blank lines of
\* the text, one paragraph a line, whichever lines are blank
C9_ExactLines ==
    (ApplyMatched /\ NonBlankLines(WithoutMarker(AppliedText)) # <<>>) =>
        doc[1].shapes[matches[1].ppt_shape].paras = NonBlankLines(WithoutMarker(AppliedText))

\* C10 as claimed: when no non-blank line remains in the intent text without
\* the marker, the apply leaves the text container of the matched shape as it was
C10_NoErasure ==
    (ApplyMatched /\ NonBlankLines(WithoutMarker(AppliedText)) = <<>>) =>
        doc[1].shapes[matches[1].ppt_shape].paras
            = applied.before[1].shapes[matches[1].ppt_shape].paras

--------------------------------------------------------------------------
(* Properties of the cycle *)

\* the mismatches of severity critical
Critical(mismatches) == OfSeverity(mismatches, "critical")

\* C4 as claimed: when the verification of the first cycle reported no mismatch,
\* the verification of the second cycle reports none and the same success rate
C4_SecondCycleIdempotent ==
    (pc = "verified2" /\ result.overall_status = "pass") =>
        /\ result2.mismatches = <<>>
        /\ RateEqual(result2.success_rate, result.success_rate)

\* C5 as claimed: after an auto-fix the post-repair mismatches hold no more
\* critical mismatches than the verification found before the repair
C5_RepairNeverAddsCritical ==
    (pc = "fixed" /\ result.repaired) =>
        Len(Critical(result.post_repair_mismatches)) <= Len(Critical(result.mismatches))

\* the intended content shapes with a text
IntendedWithText ==
    SelectSeq(intent[1].shapes,
              LAMBDA shape : ContentVerifier_is_content_shape(shape) /\ shape.text # <<>>)

\* the presentation has the slide of the slide_index of the intent slide
SlidePresent == ActualSlide(extract_slide_details(doc), intent[1].slide_index) # 0

\* the shapes of the slide of the presentation the intent slide is compared with
Counterparts ==
    ActualShapes(extract_slide_details(doc)
                    [ActualSlide(extract_slide_details(doc), intent[1].slide_index)])

\* the counterpart of an intended shape, 0 when it has none
CounterpartOf(shape) ==
    _find_matching_actual_shape(shape.name, shape.placeholder_type, Counterparts, shape)

\* the counterpart of an intended shape holds exactly the intended text
HoldsExactly(shape) ==
    /\ SlidePresent
    /\ CounterpartOf(shape) # 0
    /\ ~TextIsNone(Counterparts[CounterpartOf(shape)])
    /\ Counterparts[CounterpartOf(shape)].text = shape.text

\* every intended content shape with a text has a counterpart that holds it
AllHoldExactly ==
    \A k \in 1..Len(IntendedWithText) : HoldsExactly(IntendedWithText[k])

\* an intended content shape has a text that is not blank
SomeTextToCheck ==
    \E k \in 1..Len(IntendedWithText) : Strip(IntendedWithText[k].text) # <<>>

ScenarioShape ==
    IF \E k \in 1..Len(intent[1].shapes) :
          /\ intent[1].shapes[k].name = <<"Content", " ", "Placeholder", " ", "2">>
          /\ intent[1].shapes[k].placeholder_type = "OBJECT"
          /\ intent[1].shapes[k].text = <<"Alpha", "\n", "Beta">>
    THEN CHOOSE k \in 1..Len(intent[1].shapes) :
          /\ intent[1].shapes[k].name = <<"Content", " ", "Placeholder", " ", "2">>
          /\ intent[1].shapes[k].placeholder_type = "OBJECT"
          /\ intent[1].shapes[k].text = <<"Alpha", "\n", "Beta">>
    ELSE 0

\* the empty eligible shapes of that name the slide held before the reconcile
ScenarioTargets ==
    { i \in 1..Len(applied.before[1].shapes) :
        /\ applied.before[1].shapes[i].name = <<"Content", " ", "Placeholder", " ", "2">>
        /\ applied.before[1].shapes[i].has_text_frame
        /\ _is_content_shape(applied.before[1].shapes[i])
        /\ ShapeText(applied.before[1].shapes[i]) = <<>> }

\* the scenario: the intent slide is the slide the verification compares the
\* presentation slide with, it declares the shape, no role OBJECT shape is
\* declared before it, and the slide held an empty eligible shape of its name
Scenario ==
    /\ pc = "verified"
    /\ intent[1].slide_index = 0
    /\ ScenarioShape # 0
    /\ \A k \in 1..(ScenarioShape - 1) : intent[1].shapes[k].placeholder_type # "OBJECT"
    /\ ScenarioTargets # {}

\* C8: in the scenario the shape is matched by exact name at confidence 1.0 to
\* the empty shape of its name, the apply leaves that shape with exactly the
\* paragraphs "Alpha", "Beta", and the verification that follows reports no
\* mismatch for the shape
C8_EndToEnd ==
    Scenario =>
        /\ \E n \in 1..Len(matches) :
              /\ matches[n].json_shape = intent[1].shapes[ScenarioShape]
              /\ matches[n].ppt_shape \in ScenarioTargets
              /\ matches[n].strategy = "exact_name"
              /\ matches[n].confidence = 1000
              /\ doc[1].shapes[matches[n].ppt_shape].paras = <<<<"Alpha">>, <<"Beta">>>>
        /\ \A n \in 1..Len(result.mismatches) :
              result.mismatches[n].shape_name # <<"Content", " ", "Placeholder", " ", "2">>

\* the scenario on a slide where the shape of the name comes second, behind
\* another content placeholder, and the verification passed
C8_Witness ==
    /\ Scenario
    /\ ScenarioTargets = {2}
    /\ IsContentMarked(applied.before[1].shapes[1])
    /\ result.overall_status = "pass"
    /\ result.total_shapes_checked = 1


--------------------------------------------------------------------------
(* Properties of the repair pass *)

\* the critical mismatches the verification handed to the repair pass
HandedToRepair == Critical(result.mismatches)

\* how many of the repair results refer to a mismatch
ResultsFor(mismatch) ==
    Cardinality({ i \in 1..Len(result.repair_results) :
                    result.repair_results[i].mismatch = mismatch })

\* how many times a mismatch was handed to the repair pass
TimesHanded(mismatch) ==
    Cardinality({ j \in 1..Len(HandedToRepair) : HandedToRepair[j] = mismatch })

\* C12 as claimed: after an auto-fix run repair_results holds exactly one
\* RepairResult for each critical mismatch handed to the repair pass, none
\* missing and none duplicated, whatever the slide index of the mismatch
C12_OneResultPerCritical ==
    (pc = "fixed" /\ result.repaired) =>
        /\ Len(result.repair_results) = Len(HandedToRepair)
        /\ \A j \in 1..Len(HandedToRepair) :
              ResultsFor(HandedToRepair[j]) = TimesHanded(HandedToRepair[j])

\* the slides whose repair raises: in range of the presentation and of the
\* intent, with a critical issue, and with a text that is no string
RaisingSlides ==
    { n \in { HandedToRepair[j].slide_index : j \in 1..Len(HandedToRepair) } :
        n < Len(doc) /\ n < Len(intent) /\ MapRaises(intent[n + 1]) }

\* a repair result recorded by the error handler of the repair pass
IsFailedResult(repair_result) ==
    ~repair_result.repair_attempted /\ repair_result.repair_method = "none"

\* C13 as claimed: when the repair of one slide raises, only the issues of
\* that slide are recorded as failed results, and the issues of every other
\* slide with critical issues are still repaired
C13_FailureStaysOnItsSlide ==
    (pc = "fixed" /\ result.repaired /\ RaisingSlides # {}) =>
        /\ \A i \in 1..Len(result.repair_results) :
              IsFailedResult(result.repair_results[i]) =>
                  result.repair_results[i].mismatch.slide_index \in RaisingSlides
        /\ \A j \in 1..Len(HandedToRepair) :
              (/\ HandedToRepair[j].slide_index \notin RaisingSlides
               /\ HandedToRepair[j].slide_index < Len(doc))
              => \E i \in 1..Len(result.repair_results) :
                    /\ result.repair_results[i].mismatch = HandedToRepair[j]
                    /\ ~IsFailedResult(result.repair_results[i])

\* the result of the verification that was made last
LatestResult == IF pc = "verified2" THEN result2 ELSE result

\* a verification has just returned
VerificationReturned == pc \in {"verified", "verified2", "fixed"}

\* the verification that was made last had auto_fix_critical set
WithAutoFix == pc = "fixed"

\* C14: every RepairResult refers to a critical mismatch of the verification,
\* and a verification without auto_fix_critical, or one that finds no critical
\* mismatch, writes no shape, does not save the document and repairs nothing
C14_OnlyCriticalRepaired ==
    [][VerificationReturned' =>
         /\ \A i \in 1..Len(LatestResult'.repair_results) :
               /\ LatestResult'.repair_results[i].mismatch.severity = "critical"
               /\ \E j \in 1..Len(LatestResult'.mismatches) :
                     LatestResult'.mismatches[j] = LatestResult'.repair_results[i].mismatch
         /\ (~WithAutoFix' \/ Critical(LatestResult'.mismatches) = <<>>) =>
               /\ doc' = doc
               /\ saves' = saves
               /\ ~LatestResult'.repaired
               /\ LatestResult'.repair_results = <<>>]_vars

\* an auto-fix run found a warning next to a critical mismatch, repaired and
\* saved the document
C14_Witness ==
    /\ pc = "fixed"
    /\ result.repaired
    /\ saves = 1
    /\ OfSeverity(result.mismatches, "warning") # <<>>
    /\ \E i \in 1..Len(result.repair_results) : result.repair_results[i].repair_successful

\* C15 as claimed: an auto-fix cycle saves the document exactly once; the save
\* comes when the repair of every affected slide has been attempted and before
\* the post-repair verification, which neither repairs nor saves
C15_SavedOnceBeforePostRepair ==
    /\ []((pc = "fixed" /\ result.repaired) => saves = 1)
    /\ [][saves' # saves =>
            /\ saves = 0 /\ saves' = 1
            /\ pc = "repair" /\ todo = <<>>
            /\ pc' = "post"]_vars
    /\ [][pc = "post" => (doc' = doc /\ saves' = saves /\ fix' = fix)]_vars

--------------------------------------------------------------------------
(* Properties of _analyze_content_match *)

\* the actual text of the call holds one of the default-text patterns
HoldsPattern ==
    \E pattern \in default_text_patterns : Contains(Lower(call.actual_text), pattern)

\* C16: a counterpart whose non-empty text holds a known boilerplate pattern is
\* classified default_text with severity critical whatever the intended text,
\* also when the intended text is the actual text
C16_BoilerplateIsDefaultText ==
    (pc = "analyzed" /\ call.actual_text # <<>> /\ HoldsPattern) =>
        /\ call.mismatch.issue_type = "default_text"
        /\ call.mismatch.severity = "critical"
        /\ call.mismatch.intended_content = call.intended_text
        /\ call.mismatch.actual_content = call.actual_text

\* the intended text is the boilerplate the counterpart holds
C16_Witness ==
    /\ pc = "analyzed"
    /\ HoldsPattern
    /\ call.intended_text = call.actual_text
    /\ call.mismatch.issue_type = "default_text"

\* the texts of the call differ after normalisation, and the actual text is
\* not empty and not default text
DiffersAfterNormalization ==
    /\ pc = "analyzed"
    /\ call.actual_text # <<>>
    /\ ~_is_default_text(call.actual_text)
    /\ Normalized(call.intended_text) # Normalized(call.actual_text)

\* one normalised text is a substring of the other
OneHoldsTheOther ==
    \/ Contains(Normalized(call.actual_text), Normalized(call.intended_text))
    \/ Contains(Normalized(call.intended_text), Normalized(call.actual_text))

\* the word-Jaccard similarity of the normalised texts is greater than 0.8
VerySimilar ==
    LET words1 == WordSet(Normalized(call.intended_text))
        words2 == WordSet(Normalized(call.actual_text))
    IN  /\ words1 # {} /\ words2 # {}
        /\ 10 * Cardinality(words1 \cap words2) > 8 * Cardinality(words1 \cup words2)

\* the call reported a content_mismatch of a severity
Reported(severity) ==
    call.mismatch.issue_type = "content_mismatch" /\ call.mismatch.severity = severity

\* C17 as claimed: texts that differ give a content_mismatch of severity warning
\* when one holds the other and their similarity is above 0.8, and of severity
\* critical otherwise
C17_WarningWhenVerySimilar ==
    DiffersAfterNormalization =>
        IF OneHoldsTheOther /\ VerySimilar THEN Reported("warning")
        ELSE Reported("critical")

\* C17 as amended: when one text holds the other, no mismatch is reported if
\* their similarity is above 0.8 and a warning otherwise; when neither holds
\* the other the mismatch is critical
C17_WarningWhenHeldButNotSimilar ==
    DiffersAfterNormalization =>
        IF OneHoldsTheOther
        THEN IF VerySimilar THEN call.mismatch = NoMismatch ELSE Reported("warning")
        ELSE Reported("critical")

\* texts that differ by a repeated word only: no mismatch is reported
C17_Witness ==
    /\ DiffersAfterNormalization
    /\ OneHoldsTheOther
    /\ VerySimilar
    /\ call.mismatch = NoMismatch

--------------------------------------------------------------------------
(* Properties of the order of the writes *)

\* the place of the intent shape of a match in the priority sequence
PriorityPlace(m) ==
    CHOOSE k \in 1..Len(_filter_content_shapes(intent[1])) :
        _filter_content_shapes(intent[1])[k] = m.json_shape

\* a shape is written after another one was
NextWriteMade == call.made /\ call'.made /\ call' # call

\* C18 as claimed: the shapes of a slide are written in the priority sequence
\* of the intent shapes (TITLE, then OBJECT, then the other roles)
C18_WritesInPriorityOrder ==
    [][NextWriteMade => PriorityPlace(call.match) < PriorityPlace(call'.match)]_vars

\* C18 as amended: the shapes are written by descending confidence of the
\* matches, matches of equal confidence in the priority sequence
C18_WritesInConfidenceOrder ==
    [][NextWriteMade =>
         \/ call.match.confidence > call'.match.confidence
         \/ /\ call.match.confidence = call'.match.confidence
            /\ PriorityPlace(call.match) < PriorityPlace(call'.match)]_vars

\* two shapes were written, the one of lower priority and greater confidence
\* first
C18_Witness ==
    /\ pc = "applied"
    /\ applied.updated_count = 2
    /\ Len(matches) = 2
    /\ call.match = matches[2]
    /\ matches[1].confidence > matches[2].confidence
    /\ PriorityPlace(matches[1]) > PriorityPlace(matches[2])
    /\ priority(matches[1].json_shape) > priority(matches[2].json_shape)

--------------------------------------------------------------------------
(* Properties of the shapes that look like slide numbers *)

\* a shape of the slide looks like a slide number: its name holds "slide" and
\* "number", or its text is a numeral of one or two digits
LooksLikeSlideNumber(shape) ==
    \/ InStr("slide", Lower(shape.name)) /\ InStr("number", Lower(shape.name))
    \/ /\ Strip(ShapeText(shape)) # <<>>
       /\ \A i \in 1..Len(Strip(ShapeText(shape))) : IsDigitTok(Strip(ShapeText(shape))[i])
       /\ StrLen(Strip(ShapeText(shape))) <= 2

\* no match of a list targets a shape of the slide that looks like a slide number
NoneTargetsSlideNumber(ms, slide) ==
    \A i \in 1..Len(ms) : ~LooksLikeSlideNumber(slide.shapes[ms[i].ppt_shape])

\* the matches the repair of an intent shape would get on the slide as it is
RepairMatches(shape_data) ==
    match_placeholders_for_slide(doc[1], ScopedSlideData(shape_data))

\* C20: no match of the initial pass and no match of a repair pass targets a
\* shape of the slide that looks like a slide number, and no such shape is
\* written by a reconcile or by a repair
C20_SlideNumberNeverTargeted ==
    /\ [](matches # <<>> => NoneTargetsSlideNumber(matches, applied.before[1]))
    /\ [](\A k \in 1..Len(intent[1].shapes) :
              NoneTargetsSlideNumber(RepairMatches(intent[1].shapes[k]), doc[1]))
    /\ [][\A i \in 1..Len(doc[1].shapes) :
              doc'[1].shapes[i] # doc[1].shapes[i]
                  => ~LooksLikeSlideNumber(doc[1].shapes[i])]_vars

\* the intent declares a text box with the name of a shape that looks like a
\* slide number, or at its place; the shape was left alone and another shape
\* of the slide was written
C20_Witness ==
    /\ pc \in {"applied", "fixed"}
    /\ \E i \in 1..Len(doc[1].shapes) :
          /\ LooksLikeSlideNumber(doc[1].shapes[i])
          /\ doc[1].shapes[i].paras = <<<<>>>>
          /\ \E k \in 1..Len(intent[1].shapes) :
                /\ intent[1].shapes[k].text # <<>>
                /\ \/ Lower(intent[1].shapes[k].name) = Lower(doc[1].shapes[i].name)
                   \/ Distance(intent[1].shapes[k], doc[1].shapes[i]) = 0
    /\ \E i \in 1..Len(doc[1].shapes) : doc[1].shapes[i].paras \notin {<<<<>>>>, <<<<"1", "2">>>>}

--------------------------------------------------------------------------
(* create_presentation_from_reorganized_json.py: the deck built slide by slide *)

\* shape.is_placeholder
IsPlaceholder(shape) == shape.placeholder_type # ""

\* shape_data.get("is_placeholder", False)
DataIsPlaceholder(shape_data) ==
    IF "is_placeholder" \in DOMAIN shape_data THEN shape_data.is_placeholder ELSE FALSE

\* the first shape of a set of shape indexes in the order of slide.shapes; 0
\* stands for None
FirstIn(S) == IF S = {} THEN 0 ELSE CHOOSE i \in S : \A j \in S : i <= j

\* p in s for lower-case strings: a word inside a token, or whole tokens
SubStr(p, s) == IF Len(p) = 1 THEN InStr(p[1], s) ELSE Contains(s, p)

\* the unused shapes of the slide
Free(slide, used_shapes) == {i \in 1..Len(slide.shapes) : i \notin used_shapes}

\* is_title or is_slide_number or is_picture or is_table
ObviouslyNotContent(shape) ==
    \/ InStr("title", NameLower(shape))
    \/ InStr("slide", NameLower(shape)) /\ InStr("number", NameLower(shape))
    \/ IsDigit(Strip(ShapeText(shape))) /\ StrLen(Strip(ShapeText(shape))) <= 2
    \/ InStr("picture", NameLower(shape))
    \/ InStr("table", NameLower(shape))

\* strategy 0 and the first half of strategy 2: the exact name
ByExactName(slide, shape_data, used_shapes) ==
    FirstIn({i \in Free(slide, used_shapes) :
                /\ slide.shapes[i].has_text_frame
                /\ slide.shapes[i].name # <<>>
                /\ NameLower(slide.shapes[i]) = Lower(shape_data.name)})

\* strategy 1, first loop: the placeholder type of the shape is the declared one
ByPlaceholderType(slide, shape_data, used_shapes) ==
    FirstIn({i \in Free(slide, used_shapes) :
                /\ IsPlaceholder(slide.shapes[i])
                /\ slide.shapes[i].placeholder_type = shape_data.placeholder_type})

\* strategies 1.2 and 1.3, for a TITLE and for an OBJECT; SLIDE_NUMBER shapes
\* are skipped by the caller
ByPlaceholderRole(slide, shape_data, used_shapes) ==
    LET held == {i \in Free(slide, used_shapes) :
                    IsPlaceholder(slide.shapes[i]) /\ slide.shapes[i].has_text_frame}
    IN  IF shape_data.placeholder_type = "TITLE"
        THEN FirstIn({i \in held : \/ InStr("title", NameLower(slide.shapes[i]))
                                   \/ slide.shapes[i].placeholder_type = "TITLE"})
        ELSE IF shape_data.placeholder_type = "OBJECT"
        THEN IF {i \in held : IsContentMarked(slide.shapes[i])} # {}
             THEN FirstIn({i \in held : IsContentMarked(slide.shapes[i])})
             ELSE FirstIn({i \in held : ~ObviouslyNotContent(slide.shapes[i])})
        ELSE 0

\* strategy 2, second loop: the declared name, or one of its words, in the name
\* of the shape
ByPartialName(slide, shape_data, used_shapes) ==
    FirstIn({i \in Free(slide, used_shapes) :
                /\ slide.shapes[i].has_text_frame
                /\ slide.shapes[i].name # <<>>
                /\ \/ SubStr(Lower(shape_data.name), NameLower(slide.shapes[i]))
                   \/ \E w \in WordSet(Lower(shape_data.name)) :
                          SubStr(w, NameLower(slide.shapes[i]))})

\* strategy 3: the placeholder at the least distance below the tolerance
ByPosition(slide, shape_data, used_shapes) ==
    LET ok == {i \in Free(slide, used_shapes) :
                  /\ slide.shapes[i].has_text_frame
                  /\ IsPlaceholder(slide.shapes[i])
                  /\ Distance(shape_data, slide.shapes[i]) < position_tolerance
                  /\ (shape_data.placeholder_type = "OBJECT"
                          => IsContentMarked(slide.shapes[i]))}
    IN  FirstIn({i \in ok : \A k \in ok : Distance(shape_data, slide.shapes[i])
                                            <= Distance(shape_data, slide.shapes[k])})

\* strategy 4: the content placeholder with the declared number, or the first
\* one from the top left, for an OBJECT; a title placeholder for a TITLE
BySmartFallback(slide, shape_data, used_shapes) ==
    LET held == {i \in Free(slide, used_shapes) :
                    IsPlaceholder(slide.shapes[i]) /\ slide.shapes[i].has_text_frame}
        content_placeholders ==
            SortByTopLeft(SelectSeq([i \in 1..Len(slide.shapes) |-> i],
                              LAMBDA i : i \in held /\ ~ObviouslyNotContent(slide.shapes[i])),
                          slide)
        numbered == SelectSeq(content_placeholders,
                        LAMBDA i : /\ PlaceholderNumber(Lower(shape_data.name)) # -1
                                   /\ PlaceholderNumber(NameLower(slide.shapes[i]))
                                          = PlaceholderNumber(Lower(shape_data.name)))
    IN  IF shape_data.placeholder_type = "OBJECT"
        THEN IF content_placeholders = <<>> THEN 0
             ELSE IF numbered # <<>> THEN numbered[1]
             ELSE content_placeholders[1]
        ELSE IF shape_data.placeholder_type = "TITLE"
        THEN FirstIn({i \in held : InStr("title", NameLower(slide.shapes[i]))})
        ELSE 0

\* strategy 5: any unused shape with a text frame
ByLastResort(slide, used_shapes) ==
    FirstIn({i \in Free(slide, used_shapes) : slide.shapes[i].has_text_frame})

\* the first strategy of a list of results that found a shape
FirstFound(found) ==
    IF \A k \in 1..Len(found) : found[k] = 0 THEN 0
    ELSE found[CHOOSE k \in 1..Len(found) : found[k] # 0 /\ \A j \in 1..(k - 1) : found[j] = 0]

\* the shape of the slide for an intent shape, 0 for None
find_best_matching_shape(slide, shape_data, used_shapes) ==
    FirstFound(<<
        IF shape_data.placeholder_type = "OBJECT" /\ shape_data.name # <<>>
        THEN ByExactName(slide, shape_data, used_shapes) ELSE 0,
        IF DataIsPlaceholder(shape_data) /\ shape_data.placeholder_type # ""
        THEN ByPlaceholderType(slide, shape_data, used_shapes) ELSE 0,
        IF DataIsPlaceholder(shape_data) /\ shape_data.placeholder_type # ""
        THEN ByPlaceholderRole(slide, shape_data, used_shapes) ELSE 0,
        IF shape_data.name # <<>>
        THEN ByExactName(slide, shape_data, used_shapes) ELSE 0,
        IF shape_data.name # <<>>
        THEN ByPartialName(slide, shape_data, used_shapes) ELSE 0,
        ByPosition(slide, shape_data, used_shapes),
        BySmartFallback(slide, shape_data, used_shapes),
        ByLastResort(slide, used_shapes) >>)

\* shape_priority
shape_priority(shape_data) ==
    IF shape_data.placeholder_type = "TITLE" THEN 0
    ELSE IF shape_data.placeholder_type = "OBJECT" THEN 1
    ELSE IF shape_data.placeholder_type = "SLIDE_NUMBER" THEN 9
    ELSE 2

\* sorted(shapes_data, key=shape_priority)
SortedByShapePriority(shapes_data) ==
    SelectSeq(shapes_data, LAMBDA sd : shape_priority(sd) = 0)
    \o SelectSeq(shapes_data, LAMBDA sd : shape_priority(sd) = 1)
    \o SelectSeq(shapes_data, LAMBDA sd : shape_priority(sd) = 2)
    \o SelectSeq(shapes_data, LAMBDA sd : shape_priority(sd) = 9)

\* one round of the loop of apply_content_to_slide once the text is known to be
\* written: the slide, the used shapes, and whether the write raised
FallbackWritten(slide, shape_data, used_shapes, target_shape) ==
    IF target_shape = 0 \/ ~slide.shapes[target_shape].has_text_frame
    THEN [slide |-> slide, used_shapes |-> used_shapes, raised |-> FALSE]
    ELSE IF TextType(shape_data) = "list"
    THEN [slide |-> [slide EXCEPT !.shapes[target_shape] = TextFrameClear(@)],
          used_shapes |-> used_shapes \cup {target_shape}, raised |-> TRUE]
    ELSE [slide |-> [slide EXCEPT !.shapes[target_shape] =
                         WriteText(@, TextToWrite(shape_data.text))],
          used_shapes |-> used_shapes \cup {target_shape}, raised |-> FALSE]

\* the loop of apply_content_to_slide; an exception ends it and is swallowed
RECURSIVE FallbackFrom(_, _, _)
FallbackFrom(slide, shapes_data, used_shapes) ==
    IF shapes_data = <<>> THEN slide
    ELSE LET shape_data == Head(shapes_data) IN
         IF shape_data.placeholder_type = "SLIDE_NUMBER"
         THEN FallbackFrom(slide, Tail(shapes_data), used_shapes)
         ELSE IF TextType(shape_data) = "int" THEN slide
         ELSE IF TextType(shape_data) = "str" /\ TextToWrite(shape_data.text) = <<>>
         THEN FallbackFrom(slide, Tail(shapes_data), used_shapes)
         ELSE LET written == FallbackWritten(slide, shape_data, used_shapes,
                                 find_best_matching_shape(slide, shape_data, used_shapes))
              IN  IF written.raised THEN written.slide
                  ELSE FallbackFrom(written.slide, Tail(shapes_data), written.used_shapes)

apply_content_to_slide(slide, slide_data) ==
    FallbackFrom(slide, SortedByShapePriority(slide_data.shapes), {})

\* the slide layouts of the template, each with the placeholders of a new slide
TemplateLayouts ==
    << [name |-> <<"Title", " ", "Slide">>,
        shapes |-> << DocShape(<<"Title", " ", "1">>, 0, 0, "TITLE", <<<<>>>>),
                      DocShape(<<"Subtitle", " ", "2">>, 0, 100000, "SUBTITLE", <<<<>>>>) >>],
       [name |-> <<"Title", " ", "and", " ", "Content">>,
        shapes |-> << DocShape(<<"Title", " ", "1">>, 0, 0, "TITLE", <<<<>>>>),
                      DocShape(<<"Content", " ", "Placeholder", " ", "2">>, 0, 100000,
                               "OBJECT", <<<<>>>>) >>],
       [name |-> <<"Content">>,
        shapes |-> << DocShape(<<"Content", " ", "Placeholder", " ", "2">>, 0, 100000,
                               "OBJECT", <<<<>>>>) >>] >>

\* find_layout_by_name: the exact name, then a name that holds or is held by
\* the declared one; 0 for None
find_layout_by_name(layout_name) ==
    FirstFound(<<
        FirstIn({k \in 1..Len(TemplateLayouts) :
                    Lower(TemplateLayouts[k].name) = Lower(layout_name)}),
        FirstIn({k \in 1..Len(TemplateLayouts) :
                    \/ SubStr(Lower(layout_name), Lower(TemplateLayouts[k].name))
                    \/ SubStr(Lower(TemplateLayouts[k].name), Lower(layout_name))}) >>)

\* new_prs.slides.add_slide(slide_layout), slide_layouts[1] being the default
add_slide(layout_name) ==
    IF find_layout_by_name(layout_name) = 0
    THEN [shapes |-> TemplateLayouts[2].shapes]
    ELSE [shapes |-> TemplateLayouts[find_layout_by_name(layout_name)].shapes]

\* an intent slide of the deck
SlideData(layout_name, shapes) ==
    [slide_index |-> 0, slide_layout_name |-> layout_name, shapes |-> shapes]

\* an intent shape that is declared a placeholder, with text of a JSON type
TypedShape(name, ptype, text, text_type) ==
    [name |-> name, placeholder_type |-> ptype, left_inches |-> 0, top_inches |-> 0,
     has_text_frame |-> TRUE, text |-> text, is_placeholder |-> TRUE,
     text_type |-> text_type]

\* the intent slides of a deck: plain texts; a title whose text is an array; a
\* content text that is a number; a slide without text; an unknown layout; a
\* heading for a layout without a title, as a string and as an array
BuildSlidePool ==
    { SlideData(<<"Title", " ", "and", " ", "Content">>,
                << IntentShape(<<"Title", " ", "1">>, "TITLE", 0, 0, <<"Alpha">>),
                   IntentShape(<<"Content", " ", "Placeholder", " ", "2">>, "OBJECT",
                               0, 100000, <<"Alpha", "\n", "Beta">>) >>),
      SlideData(<<"Title", " ", "and", " ", "Content">>,
                << TypedShape(<<"Title", " ", "1">>, "TITLE", <<"Alpha">>, "list"),
                   IntentShape(<<"Content", " ", "Placeholder", " ", "2">>, "OBJECT",
                               0, 100000, <<"Beta">>) >>),
      SlideData(<<"Title", " ", "and", " ", "Content">>,
                << IntentShape(<<"Title", " ", "1">>, "TITLE", 0, 0, <<"Alpha">>),
                   TypedShape(<<"Content", " ", "Placeholder", " ", "2">>, "OBJECT",
                              <<"7">>, "int") >>),
      SlideData(<<"Title", " ", "Slide">>,
                << IntentShape(<<"Title", " ", "1">>, "TITLE", 0, 0, <<>>),
                   IntentShape(<<"Subtitle", " ", "2">>, "SUBTITLE", 0, 100000, <<>>) >>),
      SlideData(<<"Unknown">>,
                << IntentShape(<<"Text", " ", "4">>, "BODY", 0, 0, <<"Beta", " ", "(missing)">>) >>),
      SlideData(<<"Content">>,
                << TypedShape(<<"Heading">>, "TITLE", <<"Alpha">>, "str") >>),
      SlideData(<<"Content">>,
                << TypedShape(<<"Heading">>, "TITLE", <<"Alpha">>, "list") >>) }

\* slides_data after json.load; the new presentation has no slide yet
InitBuild ==
    /\ intent \in UNION { [1..n -> BuildSlidePool] : n \in 1..MaxSlides }
    /\ doc = <<>>
    /\ pc = "build"
    /\ context = [slide_index |-> 0, layout_name |-> <<>>, available |-> <<>>, used |-> {}]
    /\ todo = <<>>
    /\ matches = <<>>
    /\ call = NoCall
    /\ applied = NoWrite
    /\ result = NoResult
    /\ result2 = NoResult
    /\ saves = 0
    /\ fix = NoFix

\* lines 45-58: the next slide is added and the matcher is called on it
SlideAdded(new_slide, slide_data) ==
    /\ doc' = Append(doc, new_slide)
    /\ Matched(match_placeholders_for_slide(new_slide, slide_data))
    /\ applied' = [before |-> doc, updated_count |-> 0]

AddSlide ==
    /\ pc = "build"
    /\ Len(doc) < Len(intent)
    /\ SlideAdded(add_slide(intent[Len(doc) + 1].slide_layout_name), intent[Len(doc) + 1])
    /\ pc' = "write"
    /\ UNCHANGED <<intent, context, call, result, result2, saves, fix>>

\* the write of a match whose text is an array: the frame is cleared, split
\* raises in the try, the exception is caught and the count stays
WriteFailed_counted(match) ==
    /\ doc' = [doc EXCEPT ![Len(doc)].shapes[match.ppt_shape] = TextFrameClear(@)]
    /\ applied' = [applied EXCEPT !.updated_count = @ + 1]
    /\ UNCHANGED call

WriteFailed(match) ==
    /\ doc' = [doc EXCEPT ![Len(doc)].shapes[match.ppt_shape] = TextFrameClear(@)]
    /\ UNCHANGED <<applied, call>>

\* the write of a match whose text is a string on the slide added last
WrittenLast(match, new_text) ==
    IF new_text = <<>> THEN UNCHANGED <<doc, applied, call>>
    ELSE /\ doc' = [doc EXCEPT ![Len(doc)].shapes[match.ppt_shape] = WriteText(@, new_text)]
         /\ applied' = [applied EXCEPT !.updated_count = @ + 1]
         /\ call' = [NoCall EXCEPT !.made = TRUE, !.shape_data = match.json_shape,
                                   !.match = match]

\* lines 475-513 of apply_advanced_content_matching: one round of the loop
WriteNext ==
    /\ pc = "write"
    /\ todo # <<>>
    /\ TextType(Head(todo).json_shape) # "int"
    /\ IF TextType(Head(todo).json_shape) = "list"
       THEN WriteFailed(Head(todo))
       ELSE WrittenLast(Head(todo), TextToWrite(Head(todo).json_shape.text))
    /\ todo' = Tail(todo)
    /\ UNCHANGED <<intent, pc, context, matches, result, result2, saves, fix>>

\* line 476 on a text that is a number: "(missing)" in new_text raises outside
\* the try of the loop, apply_advanced_content_matching raises, and the except
\* clause of create_and_update_reorganized_presentation returns False
WriteAborts ==
    /\ pc = "write"
    /\ todo # <<>>
    /\ TextType(Head(todo).json_shape) = "int"
    /\ pc' = "failed"
    /\ UNCHANGED <<intent, doc, context, todo, matches, call, applied, result, result2,
                   saves, fix>>

\* lines 59-64: updated_shapes is returned; without any update the slide goes
\* through apply_content_to_slide
SlideEnd ==
    /\ pc = "write"
    /\ todo = <<>>
    /\ doc' = IF applied.updated_count = 0
              THEN [doc EXCEPT ![Len(doc)] = apply_content_to_slide(@, intent[Len(doc)])]
              ELSE doc
    /\ pc' = "build"
    /\ UNCHANGED <<intent, context, todo, matches, call, applied, result, result2, saves,
                   fix>>

\* lines 66-70: new_prs.save(output_pptx_path); return True
SaveDeck ==
    /\ pc = "build"
    /\ Len(doc) = Len(intent)
    /\ saves' = saves + 1
    /\ pc' = "saved"
    /\ UNCHANGED <<intent, doc, context, todo, matches, call, applied, result, result2,
                   fix>>

NextBuild == AddSlide \/ WriteNext \/ WriteAborts \/ SlideEnd \/ SaveDeck

SpecBuild == InitBuild /\ [][NextBuild]_vars

--------------------------------------------------------------------------
(* Properties of the failures while a deck is built *)

\* the write of the next match of the slide raises: its text is an array
NextWriteRaises ==
    pc = "write" /\ todo # <<>> /\ TextType(Head(todo).json_shape) = "list"

\* the matches of the slide whose target holds text after the loop: on a new
\* slide, those whose write completed
WritesCompleted ==
    {i \in 1..Len(matches) : doc[Len(doc)].shapes[matches[i].ppt_shape].paras # <<<<>>>>}

\* C21: a write that raises does not leave apply_advanced_content_matching:
\* the loop goes on with the remaining matches of the slide, and the count
\* that is returned is the number of matched shapes whose write completed
C21_WriteFailureIsSkipped ==
    /\ [][NextWriteRaises => /\ pc' = "write"
                             /\ todo' = Tail(todo)
                             /\ applied'.updated_count = applied.updated_count]_vars
    /\ [](pc = "write" /\ todo = <<>>
              => applied.updated_count = Cardinality(WritesCompleted))

\* the write of the title raised and the content placeholder was written after it
C21_Witness ==
    /\ pc = "write" /\ todo = <<>>
    /\ Len(matches) = 2
    /\ TextType(matches[1].json_shape) = "list"
    /\ doc[Len(doc)].shapes[matches[1].ppt_shape].paras = <<<<>>>>
    /\ doc[Len(doc)].shapes[matches[2].ppt_shape].paras = <<<<"Beta">>>>
    /\ applied.updated_count = 1

\* C22: a failure while content is matched or applied on one slide does not
\* abort the run: every intent slide gets its slide and the deck is saved
C22_FailureDoesNotAbortTheRun ==
    pc \in {"saved", "failed"} => Len(doc) = Len(intent) /\ saves = 1

--------------------------------------------------------------------------
(* verify_presentation_content on inputs that cannot be used *)

\* the presentation files and the intent files, and with them a presentation
\* that cannot be read or has no slide (_extract_actual_content gives None)
\* and an intent file that cannot be loaded or holds an empty list; the
\* presentation was reconciled or not
InitLoad ==
    /\ intent \in RepairIntents \cup {<<>>}
    /\ doc \in RepairDocs \cup {<<>>}
    /\ pc \in {"start", "applied"}
    /\ context = [slide_index |-> 0, layout_name |-> <<>>, available |-> <<>>, used |-> {}]
    /\ todo = <<>>
    /\ matches = <<>>
    /\ call = NoCall
    /\ applied = NoWrite
    /\ result = NoResult
    /\ result2 = NoResult
    /\ saves = 0
    /\ fix = NoFix

NextLoad == Verify \/ VerifyAutoFix

SpecLoad == InitLoad /\ [][NextLoad]_vars

\* C23: when the presentation yields no slides or the intent is not loaded or
\* empty, verify_presentation_content returns status fail with zero slides,
\* zero shapes checked, no mismatch and no repair result, and the
\* presentation is neither changed nor saved, with auto-fix or without
C23_UnusableInputFails ==
    [][(doc = <<>> \/ intent = <<>>) =>
           /\ result'.overall_status = "fail"
           /\ result'.total_slides = 0
           /\ result'.total_shapes_checked = 0
           /\ result'.mismatches = <<>>
           /\ ~result'.repaired /\ result'.repair_results = <<>>
           /\ doc' = doc
           /\ saves' = saves]_vars

\* auto-fix was requested for an intent with text on a presentation that
\* yields no slides, and the failed result came back
C23_Witness ==
    /\ pc = "fixed"
    /\ doc = <<>>
    /\ _count_content_shapes(intent) > 0
    /\ result.overall_status = "fail"
    /\ saves = 0

--------------------------------------------------------------------------
(* _determine_overall_status on the mismatches of a comparison *)

MaxMismatches == 4

\* mismatches as _compare_slide_shapes and _analyze_content_match build them:
\* critical ones and the warning of a partial match
MismatchPool ==
    { ContentMismatch(0, <<"Title", " ", "1">>, "TITLE", "missing_shape",
                      <<"Alpha">>, <<>>, "critical"),
      ContentMismatch(0, <<"Title", " ", "1">>, "TITLE", "default_text",
                      <<"Alpha">>, <<"Click", " ", "to", " ", "add">>, "critical"),
      ContentMismatch(0, <<"Title", " ", "1">>, "TITLE", "content_mismatch",
                      <<"Alpha", " ", "Beta">>, <<"Alpha">>, "warning") }

\* the mismatches of a comparison, the status not yet determined
InitStatus ==
    /\ result \in { [NoResult EXCEPT !.mismatches = q] :
                    q \in UNION { [1..n -> MismatchPool] : n \in 0..MaxMismatches } }
    /\ pc = "compared"
    /\ intent = <<>>
    /\ doc = <<>>
    /\ context = [slide_index |-> 0, layout_name |-> <<>>, available |-> <<>>, used |-> {}]
    /\ todo = <<>>
    /\ matches = <<>>
    /\ call = NoCall
    /\ applied = NoWrite
    /\ result2 = NoResult
    /\ saves = 0
    /\ fix = NoFix

\* line 112: overall_status = self._determine_overall_status(mismatches, success_rate)
DetermineStatus ==
    /\ pc = "compared"
    /\ result' = [result EXCEPT !.overall_status =
                      _determine_overall_status(result.mismatches, result.success_rate)]
    /\ pc' = "determined"
    /\ UNCHANGED <<intent, doc, context, todo, matches, call, applied, result2, saves, fix>>

NextStatus == DetermineStatus

SpecStatus == InitStatus /\ [][NextStatus]_vars

\* the number of mismatches of the result that have a severity
NumberOf(severity) ==
    Cardinality({i \in 1..Len(result.mismatches) : result.mismatches[i].severity = severity})

\* C24: the status is pass exactly when there is no mismatch, warning exactly
\* when there is no critical mismatch and one or two warnings, and fail exactly
\* when there is a critical mismatch or more than two warnings
C24_StatusFromSeverities ==
    pc = "determined" =>
        /\ result.overall_status = "pass" <=> result.mismatches = <<>>
        /\ result.overall_status = "warning"
               <=> NumberOf("critical") = 0 /\ NumberOf("warning") \in {1, 2}
        /\ result.overall_status = "fail"
               <=> NumberOf("critical") > 0 \/ NumberOf("warning") > 2
        /\ result.overall_status \in {"pass", "warning", "fail"}

\* two warnings gave the status warning
C24_Witness ==
    /\ pc = "determined"
    /\ NumberOf("critical") = 0 /\ NumberOf("warning") = 2
    /\ result.overall_status = "warning"

--------------------------------------------------------------------------
(* _try_position_match on shapes near and far from the declared position *)

\* text boxes at distances below, at and above the tolerance from the origin,
\* a title and a content placeholder
PositionDocShapePool ==
    { DocShape(<<"Text", " ", "4">>, l, 0, "", <<<<>>>>) :
          l \in {0, 100000, 460000, 480000, 500000, 700000} }
    \cup { DocShape(<<"Title", " ", "1">>, 240000, 0, "TITLE", <<<<>>>>),
           DocShape(<<"Content", " ", "Placeholder", " ", "2">>, 0, 480000, "OBJECT",
                    <<<<>>>>) }

\* the intent shapes, declared at the origin
PositionIntentShapePool ==
    { IntentShape(<<"Note">>, "BODY", 0, 0, <<"Alpha">>),
      IntentShape(<<"Heading">>, "TITLE", 0, 0, <<"Alpha">>),
      IntentShape(<<"Main">>, "OBJECT", 0, 0, <<"Alpha">>) }

\* a slide, an intent shape, and the first shape of the slide consumed or not
InitPosition ==
    /\ doc \in { << [shapes |-> q] >> :
                 q \in DistinctSeqs(PositionDocShapePool, MaxDocShapes) }
    /\ intent \in { << SlideData(<<"Title", " ", "and", " ", "Content">>, <<sd>>) >> :
                    sd \in PositionIntentShapePool }
    /\ context \in { [_create_slide_context(doc[1], intent[1]) EXCEPT !.used = u] :
                     u \in {{}, {1}} }
    /\ pc = "match"
    /\ todo = intent[1].shapes
    /\ matches = <<>>
    /\ call = NoCall
    /\ applied = NoWrite
    /\ result = NoResult
    /\ result2 = NoResult
    /\ saves = 0
    /\ fix = NoFix

\* the strategy is called for the intent shape
PositionMatch ==
    /\ pc = "match"
    /\ todo # <<>>
    /\ call' = [made |-> TRUE, shape_data |-> Head(todo), used |-> context.used,
                match |-> _try_position_match(Head(todo), context, doc[1])]
    /\ todo' = Tail(todo)
    /\ pc' = "returned"
    /\ UNCHANGED <<intent, doc, context, matches, applied, result, result2, saves, fix>>

NextPosition == PositionMatch

SpecPosition == InitPosition /\ [][NextPosition]_vars

\* the distance of an unconsumed eligible shape from the declared position
CallDistance(i) == Distance(call.shape_data, doc[1].shapes[i])

\* the confidence is max(0.1, 1 - d/tolerance) in thousandths, rounded down
IsPositionConfidence(c, d) ==
    /\ c >= 100
    /\ c > 100 => c * position_tolerance <= 1000 * (position_tolerance - d)
                  /\ 1000 * (position_tolerance - d) < (c + 1) * position_tolerance
    /\ c = 100 => 1000 * (position_tolerance - d) < 101 * position_tolerance

\* C25: the position strategy returns no match when every unconsumed candidate
\* lies at the tolerance or beyond; a match at distance d below the tolerance
\* has confidence max(0.1, 1 - d/tolerance), which is at least 0.1 and not
\* above the confidence a nearer candidate would have got
C25_PositionConfidence ==
    call.made =>
        /\ (\A k \in 1..Len(CallUnused) : CallDistance(CallUnused[k]) >= position_tolerance)
               => call.match = NoMatch
        /\ call.match # NoMatch =>
              /\ CallDistance(call.match.ppt_shape) < position_tolerance
              /\ IsPositionConfidence(call.match.confidence,
                                      CallDistance(call.match.ppt_shape))
              /\ \A n \in 0..(CallDistance(call.match.ppt_shape) \div 20000) :
                     PositionConfidence(20000 * n) >= call.match.confidence

\* a match just below the tolerance was returned with the least confidence,
\* next to a shape at the tolerance
C25_Witness ==
    /\ call.made
    /\ call.match # NoMatch
    /\ CallDistance(call.match.ppt_shape) = 480000
    /\ call.match.confidence = 100
    /\ \E k \in 1..Len(CallUnused) : CallDistance(CallUnused[k]) = position_tolerance

--------------------------------------------------------------------------
(* Properties of the shapes written by the repairs of a slide *)

\* the shape _attempt_single_repair writes for an issue, 0 when it writes none
RepairTarget(slide, slide_data, issue) ==
    IF RepairIntended(slide, slide_data, issue,
                      intended_content_map(slide_data, issue.shape_name))
           .repair_result.repair_successful
    THEN match_placeholders_for_slide(slide,
             ScopedSlideData(slide_data.shapes[
                 intended_content_map(slide_data, issue.shape_name)]))[1].ppt_shape
    ELSE 0

\* the shapes written for the issues of a slide, one after the other
RECURSIVE RepairTargets(_, _, _)
RepairTargets(slide, slide_data, slide_issues) ==
    IF slide_issues = <<>> THEN <<>>
    ELSE <<RepairTarget(slide, slide_data, Head(slide_issues))>>
         \o RepairTargets(_attempt_single_repair(slide, slide_data, Head(slide_issues)).slide,
                          slide_data, Tail(slide_issues))

\* the shapes the repair pass of the next step writes on the slide, an entry
\* for each critical issue of the verification
NextRepairTargets ==
    IF intent[1].slide_index # 0 THEN <<>>
    ELSE RepairTargets(doc[1], intent[1],
                       OfSeverity(VerifyOnce(doc, intent).mismatches, "critical"))

\* C26: during the repair of a slide no shape is written for two different
\* critical issues
C26_RepairsWriteDistinctShapes ==
    [][pc' = "fixed" =>
           \A i, j \in 1..Len(NextRepairTargets) :
               (i # j /\ NextRepairTargets[i] # 0) =>
                   NextRepairTargets[i] # NextRepairTargets[j]]_vars

\* the post-repair verification still reports a critical mismatch for the slide
\* and the shape of an issue
StillCritical(issue) ==
    \E n \in 1..Len(result.post_repair_mismatches) :
        /\ result.post_repair_mismatches[n].severity = "critical"
        /\ result.post_repair_mismatches[n].slide_index = issue.slide_index
        /\ result.post_repair_mismatches[n].shape_name = issue.shape_name

\* C27: after a repair reported as successful, the post-repair verification
\* holds no critical mismatch for the slide index and shape name of its issue
C27_SuccessfulRepairResolves ==
    (pc = "fixed" /\ result.repaired) =>
        \A k \in 1..Len(result.repair_results) :
            result.repair_results[k].repair_successful
                => ~StillCritical(result.repair_results[k].mismatch)

--------------------------------------------------------------------------
(* Properties of the two write paths *)

\* the shape as _attempt_single_repair leaves it when it writes the text of
\* the intent shape into the target of the match, on the slide as it was
\* before the apply
RepairWritten ==
    RepairMatched(applied.before[1], NoMismatch, intent[1].shapes[1], matches)
        .slide.shapes[matches[1].ppt_shape]

\* the marker is in a paragraph of the shape
HoldsMarker(shape) ==
    \E n \in 1..Len(shape.paras) : Contains(shape.paras[n], <<"(missing)">>)

\* C28: for the same intent text and the same target, the repair leaves the
\* text container that apply_advanced_content_matching leaves, and the
\* "(missing)" marker is in neither
C28_RepairWritesAsApply ==
    (ApplyMatched /\ applied.updated_count = 1 /\ Strip(AppliedText) # <<>>) =>
        /\ RepairWritten.paras = doc[1].shapes[matches[1].ppt_shape].paras
        /\ ~HoldsMarker(RepairWritten)
        /\ ~HoldsMarker(doc[1].shapes[matches[1].ppt_shape])

--------------------------------------------------------------------------
(* Properties of the metrics of a verification *)

\* C29: a result computed on loaded inputs has successful_matches of at least
\* 0 and a success rate between 0 and 100, also when an intended slide is
\* missing from the presentation
C29_MetricsInRange ==
    (pc \in {"verified", "fixed"} /\ result.total_slides > 0) =>
        /\ result.successful_matches >= 0
        /\ result.success_rate[1] >= 0
        /\ result.success_rate[1] <= 100 * result.success_rate[2]

--------------------------------------------------------------------------
(* Properties of the intent shapes without text *)

\* the intent slide without the shapes whose text is empty
WithoutEmptyTexts(slide_data) ==
    [slide_data EXCEPT !.shapes = SelectSeq(@, LAMBDA sd : sd.text # <<>>)]

\* a list of matches holds a match for an intent shape
HasMatch(ms, shape_data) == \E n \in 1..Len(ms) : ms[n].json_shape = shape_data

\* C30: an intent shape with text that gets a match when the intent shapes
\* without text are removed also gets one when they are present
C30_EmptyTextTakesNoTarget ==
    pc = "apply" =>
        \A k \in 1..Len(intent[1].shapes) :
            (/\ intent[1].shapes[k].text # <<>>
             /\ HasMatch(match_placeholders_for_slide(applied.before[1],
                                                      WithoutEmptyTexts(intent[1])),
                         intent[1].shapes[k]))
                => HasMatch(matches, intent[1].shapes[k])

====
